---- MODULE Spec2Model ----
(***************************************************************************)
(* A model of jdrummer's GrooveManager (Source/GrooveManager.{h,cpp}): the *)
(* groove catalog, the composer timeline and the per-block playback        *)
(* scheduler.                                                              *)
(*                                                                         *)
(* Numbers.  The code keeps beat positions and lengths in doubles.  Here   *)
(* they are integers counting whole beats; every input below is chosen so  *)
(* that the code's arithmetic on it is exact (no rounding is modelled).    *)
(* Indices are 0-based as in the code, -1 meaning "none".                  *)
(***************************************************************************)
EXTENDS Integers, Sequences, FiniteSets, TLC

(***************************************************************************)
(* Bounds of the model.                                                    *)
(***************************************************************************)
\* Host transport positions (ppq) offered to processBlock: 0..MaxPpq.
MaxPpq == 5
\* The internal accumulator is not advanced beyond this many beats.
MaxInternalBeats == 6
\* The composer timeline holds at most this many items.
MaxItems == 2

(***************************************************************************)
(* Program constants.                                                      *)
(***************************************************************************)
DefaultSampleRate == 44100
DefaultInternalBpm == 120
DefaultNumerator == 4
DefaultDenominator == 4
DefaultTempoBpm == 120
DefaultGrooveLength == 4

(***************************************************************************)
(* The grooves directory on disk: sub-directories in alphabetical order,   *)
(* each with its *.mid files in alphabetical order.  A file is missing     *)
(* (deleted after the scan), unparsable, or a list of tracks of messages.  *)
(* A message's `sec2` is its timestamp after                                *)
(* convertTimestampTicksToSeconds, in half seconds.                        *)
(***************************************************************************)
NoteOn(sec2, n) == [kind |-> "note", sec2 |-> sec2, note |-> n, on |-> TRUE, num |-> 0, den |-> 0, bpm |-> 0]
NoteOff(sec2, n) == [kind |-> "note", sec2 |-> sec2, note |-> n, on |-> FALSE, num |-> 0, den |-> 0, bpm |-> 0]
TimeSig(sec2, n, d) == [kind |-> "timesig", sec2 |-> sec2, note |-> 0, on |-> FALSE, num |-> n, den |-> d, bpm |-> 0]
Tempo(sec2, b) == [kind |-> "tempo", sec2 |-> sec2, note |-> 0, on |-> FALSE, num |-> 0, den |-> 0, bpm |-> b]
OtherMsg(sec2) == [kind |-> "other", sec2 |-> sec2, note |-> 0, on |-> FALSE, num |-> 0, den |-> 0, bpm |-> 0]

\* One bar of 3/4: notes at beats 0, 1, 2 and a note-off on the bar line (beat 3).
FileWaltz ==
  [name |-> "Waltz", exists |-> TRUE, parses |-> TRUE,
   tracks |-> << << Tempo(0, 120), TimeSig(0, 3, 4), OtherMsg(0),
                    NoteOn(0, 36), NoteOff(1, 36), NoteOn(2, 38), NoteOff(3, 38) >> >>]
\* Two bars of 2/4, its notes given out of time order over two tracks.
FileMarch ==
  [name |-> "March", exists |-> TRUE, parses |-> TRUE,
   tracks |-> << << TimeSig(0, 2, 4), NoteOn(2, 42), NoteOff(3, 42) >>,
                 << NoteOn(0, 40), NoteOff(1, 40) >> >>]
\* One bar of 4/4 with notes on beats 0, 1 and 3.
FileShuffle ==
  [name |-> "Shuffle", exists |-> TRUE, parses |-> TRUE,
   tracks |-> << << TimeSig(0, 4, 4), NoteOn(0, 36), NoteOff(1, 36), NoteOn(1, 38), NoteOff(2, 38),
                    NoteOn(3, 42), NoteOff(4, 42) >> >>]
\* Not a MIDI file.
FileBroken == [name |-> "Broken", exists |-> TRUE, parses |-> FALSE, tracks |-> << >>]
\* Listed by the scan, deleted before it is loaded.
FileGone == [name |-> "Gone", exists |-> FALSE, parses |-> FALSE, tracks |-> << >>]

Library ==
  << [name |-> "Basic", files |-> << FileMarch, FileWaltz >>],
     [name |-> "Empty", files |-> << >>],
     [name |-> "Fills", files |-> << FileBroken, FileGone, FileShuffle >>] >>

\* The file a catalog entry points at: <<directory, file>> into Library.
DiskFile(fid) == Library[fid[1]].files[fid[2]]

VARIABLES
  categories,            \* std::vector<GrooveCategory>
  playing, looping, currentCategoryIndex, currentGrooveIndex,
  playbackStartPpq, lastProcessedPpq,
  internalBpm, internalPositionBeats, useInternalClock,
  composerItems, composerPlaying, composerStartPpq,
  currentSampleRate,
  midiOut,               \* the events the step just taken pushed to midiOut
  lastOp,                \* the operation just taken, with what it computed
  watch,                 \* an observer of the run (off unless a specification arms it)
  audio,                 \* the audio thread: where it is inside processBlock
  analyzer,              \* the AudioAnalyzer's members
  panel,                 \* the BandmatePanel: its flags, its worker, its pending callbacks
  probe                  \* a pure function's arguments and the value it returned

vars == << categories, playing, looping, currentCategoryIndex,
           currentGrooveIndex, playbackStartPpq, lastProcessedPpq, internalBpm,
           internalPositionBeats, useInternalClock, composerItems, composerPlaying,
           composerStartPpq, currentSampleRate, midiOut, lastOp, watch,
           audio, analyzer, panel, probe >>

\* What the GrooveManager's own functions never touch.
restVars == << audio, analyzer, panel, probe >>

singleVars == << playing, currentCategoryIndex, currentGrooveIndex, playbackStartPpq >>
clockVars == << internalBpm, internalPositionBeats, useInternalClock, lastProcessedPpq,
                currentSampleRate >>
composerVars == << composerItems, composerPlaying, composerStartPpq >>

(***************************************************************************)
(* Sequence helpers.                                                       *)
(***************************************************************************)
RECURSIVE FlattenSeq(_)
FlattenSeq(ss) == IF ss = << >> THEN << >> ELSE Head(ss) \o FlattenSeq(Tail(ss))

RECURSIVE SumLengths(_)
SumLengths(items) ==
  IF items = << >> THEN 0 ELSE Head(items).lengthInBeats + SumLengths(Tail(items))

RemoveAt(s, i) == SubSeq(s, 1, i - 1) \o SubSeq(s, i + 1, Len(s))
InsertAt(s, i, x) == SubSeq(s, 1, i - 1) \o << x >> \o SubSeq(s, i, Len(s))

\* Insert e after every element that is not later than it (insertion sort step).
RECURSIVE InsertByTime(_, _)
InsertByTime(sorted, e) ==
  IF sorted = << >> THEN << e >>
  ELSE IF e.timeInBeats < Head(sorted).timeInBeats THEN << e >> \o sorted
  ELSE << Head(sorted) >> \o InsertByTime(Tail(sorted), e)

RECURSIVE SortByTime(_)
SortByTime(evts) ==
  LET Sorted(v) ==
        IF v = << >> THEN << >>
        ELSE CHOOSE r \in { InsertByTime(sorted, v[Len(v)]) : sorted \in { SortByTime(SubSeq(v, 1, Len(v) - 1)) } } : TRUE
  IN CHOOSE r \in { Sorted(v) : v \in { evts } } : TRUE

CeilDiv(a, b) == (a + b - 1) \div b

Max2(a, b) == IF a > b THEN a ELSE b
Min2(a, b) == IF a < b THEN a ELSE b

(***************************************************************************)
(* Pattern store.                                                          *)
(***************************************************************************)
\* A Groove as scanGrooves leaves it: metadata only.
NewGroove(d, f) ==
  [name |-> Library[d].files[f].name, category |-> Library[d].name, file |-> << d, f >>,
   lengthInBeats |-> DefaultGrooveLength, numerator |-> DefaultNumerator,
   denominator |-> DefaultDenominator, events |-> << >>, isLoaded |-> FALSE]

ScannedCategory(d) ==
  [name |-> Library[d].name,
   grooves |-> [f \in 1..Len(Library[d].files) |-> NewGroove(d, f)]]

\* scanGrooves: every sub-directory with at least one *.mid file, in order.
RECURSIVE ScanFrom(_)
ScanFrom(d) ==
  IF d > Len(Library) THEN << >>
  ELSE (IF Library[d].files = << >> THEN << >> ELSE << ScannedCategory(d) >>)
       \o ScanFrom(d + 1)

RECURSIVE MaxEventTime(_)
MaxEventTime(evts) ==
  IF evts = << >> THEN 0
  ELSE CHOOSE r \in { Max2(Head(evts).timeInBeats, rest) : rest \in { MaxEventTime(Tail(evts)) } } : TRUE

calculateGrooveLength(groove) ==
  LET Length(g) ==
        IF g.events = << >> THEN DefaultGrooveLength
        ELSE LET beatsPerBar == g.numerator
                 bars == CeilDiv(MaxEventTime(g.events), beatsPerBar)
             IN  (IF bars < 1 THEN 1 ELSE bars) * beatsPerBar
  IN CHOOSE r \in { Length(g) : g \in { groove } } : TRUE

\* The parse loop over one message: acc is [tempoBpm, numerator, denominator, events].
ParseMessage(acc, m) ==
  IF m.kind = "tempo" THEN [acc EXCEPT !.tempoBpm = m.bpm]
  ELSE IF m.kind = "timesig" THEN [acc EXCEPT !.numerator = m.num, !.denominator = m.den]
  ELSE IF m.kind = "note"
       THEN [acc EXCEPT !.events =
               Append(@, [timeInBeats |-> (m.sec2 * acc.tempoBpm) \div 120,
                          message |-> [note |-> m.note, on |-> m.on]])]
  ELSE acc

RECURSIVE ParseMessages(_, _)
ParseMessages(acc, msgs) ==
  IF msgs = << >> THEN acc
  ELSE CHOOSE r \in { ParseMessages(next, Tail(msgs)) : next \in { ParseMessage(acc, Head(msgs)) } } : TRUE

\* parseMidiFile on the file that groove.file names: [ok, groove].
parseMidiFileFrom(groove, file) ==
  LET Measured(g1) == [ok |-> TRUE,
                       groove |-> [g1 EXCEPT !.lengthInBeats = calculateGrooveLength(g1),
                                             !.isLoaded = TRUE]]
      Parsed(acc) == CHOOSE r \in { Measured(g1) : g1 \in { [groove EXCEPT !.events = SortByTime(acc.events),
                                                                            !.numerator = acc.numerator,
                                                                            !.denominator = acc.denominator] } } : TRUE
  IN IF ~file.exists \/ ~file.parses THEN [ok |-> FALSE, groove |-> groove]
     ELSE CHOOSE r \in { Parsed(acc) : acc \in { ParseMessages([tempoBpm |-> DefaultTempoBpm, numerator |-> DefaultNumerator,
                                                                 denominator |-> DefaultDenominator, events |-> << >>],
                                                                FlattenSeq(file.tracks)) } } : TRUE

\* A faulty parseMidiFile that resets the groove before it has read the file.
parseMidiFileResetsFirst(groove) ==
  IF ~DiskFile(groove.file).exists \/ ~DiskFile(groove.file).parses
  THEN [ok |-> FALSE, groove |-> [groove EXCEPT !.events = << >>, !.isLoaded = TRUE]]
  ELSE [ok |-> TRUE,
        groove |->
          [groove EXCEPT
             !.events = SortByTime(ParseMessages(
                          [tempoBpm |-> DefaultTempoBpm, numerator |-> DefaultNumerator,
                           denominator |-> DefaultDenominator, events |-> << >>],
                          FlattenSeq(DiskFile(groove.file).tracks)).events),
             !.isLoaded = TRUE]]

\* parseMidiFile: [ok, groove].
parseMidiFile(groove) == parseMidiFileFrom(groove, DiskFile(groove.file))

ValidGroove(cats, c, g) ==
  /\ c >= 0 /\ c < Len(cats)
  /\ g >= 0 /\ g < Len(cats[c + 1].grooves)

\* getGroove: the groove, or NoGroove for nullptr.
NoGroove == [isLoaded |-> FALSE, events |-> << >>, lengthInBeats |-> 0, numerator |-> 0,
             null |-> TRUE]
getGroove(cats, c, g) == IF ValidGroove(cats, c, g) THEN cats[c + 1].grooves[g + 1] ELSE NoGroove
IsNull(groove) == "null" \in DOMAIN groove

\* A faulty loadGroove that refuses a groove it has already loaded.
loadGrooveRefusesLoaded(cats, c, g) ==
  IF ~ValidGroove(cats, c, g) THEN [ok |-> FALSE, cats |-> cats]
  ELSE IF cats[c + 1].grooves[g + 1].isLoaded THEN [ok |-> FALSE, cats |-> cats]
  ELSE [ok |-> parseMidiFile(cats[c + 1].grooves[g + 1]).ok,
        cats |-> [cats EXCEPT ![c + 1].grooves[g + 1] =
                    parseMidiFile(cats[c + 1].grooves[g + 1]).groove]]

\* loadGroove: [ok, cats].
loadGroove(cats, c, g) ==
  IF ~ValidGroove(cats, c, g) THEN [ok |-> FALSE, cats |-> cats]
  ELSE IF cats[c + 1].grooves[g + 1].isLoaded THEN [ok |-> TRUE, cats |-> cats]
  ELSE LET r == parseMidiFile(cats[c + 1].grooves[g + 1])
       IN  [ok |-> r.ok, cats |-> [cats EXCEPT ![c + 1].grooves[g + 1] = r.groove]]

(***************************************************************************)
(* Composer timeline.                                                      *)
(***************************************************************************)
getComposerLengthInBeats(items) == SumLengths(items)

\* A faulty item whose length is not clipped to the groove's length.
NewComposerItemUnclipped(items, groove, c, g, barCount) ==
  [grooveCategoryIndex |-> c, grooveIndex |-> g,
   startBeat |-> getComposerLengthInBeats(items),
   lengthInBeats |-> IF barCount <= 0 THEN groove.lengthInBeats
                     ELSE barCount * groove.numerator]

\* The item addToComposer appends (the groove is loaded).
NewComposerItem(items, groove, c, g, barCount) ==
  LET full == groove.lengthInBeats
      byBars == barCount * groove.numerator
  IN  [grooveCategoryIndex |-> c, grooveIndex |-> g,
       startBeat |-> getComposerLengthInBeats(items),
       lengthInBeats |-> IF barCount <= 0 THEN full
                         ELSE IF byBars > full THEN full ELSE byBars]

\* A faulty removeFromComposer that erases without shifting the later items.
RemoveItemNoShift(items, index) == RemoveAt(items, index + 1)

\* A faulty removeFromComposer that shifts every remaining item.
RemoveItemShiftAll(items, index) ==
  [i \in 1..(Len(items) - 1) |->
     [RemoveAt(items, index + 1)[i] EXCEPT !.startBeat = @ - items[index + 1].lengthInBeats]]

\* removeFromComposer's body for a valid index (0-based).
RemoveItem(items, index) ==
  LET removedLength == items[index + 1].lengthInBeats
      erased == RemoveAt(items, index + 1)
  IN  [i \in 1..Len(erased) |->
         IF i >= index + 1
         THEN [erased[i] EXCEPT !.startBeat = @ - removedLength]
         ELSE erased[i]]

\* The running sum moveComposerItem recomputes.
RECURSIVE Restart(_, _)
Restart(items, currentBeat) ==
  IF items = << >> THEN << >>
  ELSE << [Head(items) EXCEPT !.startBeat = currentBeat] >>
       \o Restart(Tail(items), currentBeat + Head(items).lengthInBeats)

\* A faulty moveComposerItem that reorders without recomputing the start beats.
MoveItemKeepsStarts(items, fromIndex, toIndex) ==
  InsertAt(RemoveAt(items, fromIndex + 1), toIndex + 1, items[fromIndex + 1])

\* moveComposerItem's body for valid, distinct indices (0-based).
MoveItem(items, fromIndex, toIndex) ==
  LET item == items[fromIndex + 1]
  IN  Restart(InsertAt(RemoveAt(items, fromIndex + 1), toIndex + 1, item), 0)

(***************************************************************************)
(* processBlock.                                                           *)
(***************************************************************************)
\* beatsPerSecond * secondsPerBlock
BeatsThisBlock(effectiveBpm, numSamples, sampleRate) ==
  (effectiveBpm * numSamples) \div (60 * sampleRate)

UseInternal(hostIsPlaying) == ~hostIsPlaying \/ useInternalClock

\* A faulty tempo choice that prefers the host's tempo even under the override.
EffectiveBpmHostFirst(bpm) == IF bpm > 0 THEN bpm ELSE internalBpm

EffectiveBpm(bpm) ==
  IF useInternalClock THEN internalBpm ELSE IF bpm > 0 THEN bpm ELSE internalBpm

\* How often `while (position >= length) position -= length;` runs.
RECURSIVE Wraps(_, _)
Wraps(position, length) ==
  IF position >= length THEN 1 + Wraps(position - length, length) ELSE 0

\* A faulty test whose interval is closed at its start.
shouldTriggerClosedStart(t, lastPosition, groovePosition) ==
  IF groovePosition >= lastPosition
  THEN t >= lastPosition /\ t <= groovePosition
  ELSE t >= lastPosition \/ t <= groovePosition

\* The single-groove test of one event against (lastPosition, groovePosition].
shouldTrigger(t, lastPosition, groovePosition) ==
  IF groovePosition >= lastPosition
  THEN t > lastPosition /\ t <= groovePosition
  ELSE t > lastPosition \/ t <= groovePosition

\* The messages of the events, in stored order, that pass the test.
RECURSIVE TriggeredMessages(_, _, _)
TriggeredMessages(evts, lastPosition, groovePosition) ==
  IF evts = << >> THEN << >>
  ELSE (IF shouldTrigger(Head(evts).timeInBeats, lastPosition, groovePosition)
        THEN << Head(evts).message >> ELSE << >>)
       \o TriggeredMessages(Tail(evts), lastPosition, groovePosition)

\* lastPosition of the single-groove branch.
SingleLastPosition(useInternal, groovePosition, beatsThisBlock, previousPosition, startPpq, length) ==
  IF useInternal
  THEN LET a == groovePosition - beatsThisBlock
           b == IF a < 0 /\ looping THEN a + length ELSE a
       IN  IF b < 0 THEN 0 ELSE b
  ELSE LET a == previousPosition - startPpq
       IN  IF looping
           THEN LET b == a - Wraps(a, length) * length
                IN  IF b < 0 THEN 0 ELSE b
           ELSE a

\* What a block leaves behind: the fields processBlock can write, the output, the
\* branch taken, how it was left ("scan": the event loop ran; "end": the
\* non-looping stop; "unloaded": no loaded groove; "idle") and its locals.
BlockResult(pl, cpl, start, cstart, ipb, lpp, out, branch, exit, last, pos) ==
  [playing |-> pl, composerPlaying |-> cpl, playbackStartPpq |-> start,
   composerStartPpq |-> cstart, internalPositionBeats |-> ipb, lastProcessedPpq |-> lpp,
   midiOut |-> out, branch |-> branch, exit |-> exit,
   lastPosition |-> last, position |-> pos]

\* `if (playing && !composerPlaying) { ... }`
SingleBranch(useInternal, beatsThisBlock, ipb1, currentPosition, previousPosition) ==
  LET groove == getGroove(categories, currentCategoryIndex, currentGrooveIndex) IN
  IF IsNull(groove) \/ ~groove.isLoaded
  THEN BlockResult(FALSE, composerPlaying, playbackStartPpq, composerStartPpq, ipb1,
                   lastProcessedPpq, << >>, "single", "unloaded", 0, 0)
  ELSE
  LET first == playbackStartPpq < 0
      start1 == IF first THEN currentPosition ELSE playbackStartPpq
      prev1 == IF first THEN currentPosition ELSE previousPosition
      ipb2 == IF first THEN 0 ELSE ipb1
      length == groove.lengthInBeats
      gp0 == IF useInternal THEN ipb2 ELSE currentPosition - start1
      k == IF looping THEN Wraps(gp0, length) ELSE 0
      groovePosition == gp0 - k * length
      start2 == IF useInternal THEN start1 ELSE start1 + k * length
      ipb3 == IF useInternal THEN ipb2 - k * length ELSE ipb2
      lastPosition == SingleLastPosition(useInternal, groovePosition, beatsThisBlock,
                                         prev1, start2, length)
  IN  IF ~looping /\ gp0 >= length
      THEN BlockResult(FALSE, composerPlaying, start1, composerStartPpq, ipb2,
                       lastProcessedPpq, << >>, "single", "end", 0, 0)
      ELSE BlockResult(TRUE, composerPlaying, start2, composerStartPpq, ipb3,
                       currentPosition,
                       TriggeredMessages(groove.events, lastPosition, groovePosition),
                       "single", "scan", lastPosition, groovePosition)

\* lastPositionInComposer
ComposerLastPosition(useInternal, composerPosition, beatsThisBlock, previousPosition, startPpq, composerLength) ==
  IF useInternal
  THEN LET a == composerPosition - beatsThisBlock
           b == IF a < 0 /\ looping /\ composerLength > 0 THEN a + composerLength ELSE a
       IN  IF b < 0 THEN 0 ELSE b
  ELSE LET a == previousPosition - startPpq
       IN  IF looping /\ a >= composerLength /\ composerLength > 0 THEN 0 ELSE a

\* The inner loop over one item's events.
RECURSIVE ItemMessages(_, _, _, _)
ItemMessages(evts, itemLength, lastPosInGroove, positionInGroove) ==
  IF evts = << >> THEN << >>
  ELSE (IF /\ Head(evts).timeInBeats < itemLength
           /\ Head(evts).timeInBeats > lastPosInGroove
           /\ Head(evts).timeInBeats <= positionInGroove
        THEN << Head(evts).message >> ELSE << >>)
       \o ItemMessages(Tail(evts), itemLength, lastPosInGroove, positionInGroove)

\* A faulty loop over the items that clips at the pattern's length instead of the
\* item's own.
RECURSIVE ComposerMessagesByPatternLength(_, _, _)
ComposerMessagesByPatternLength(items, lastPositionInComposer, composerPosition) ==
  IF items = << >> THEN << >>
  ELSE LET item == Head(items)
           groove == getGroove(categories, item.grooveCategoryIndex, item.grooveIndex)
           a == lastPositionInComposer - item.startBeat
           lastPosInGroove == IF a < 0 THEN 0 ELSE a
       IN  (IF /\ ~IsNull(groove) /\ groove.isLoaded
               /\ composerPosition >= item.startBeat
               /\ composerPosition < item.startBeat + groove.lengthInBeats
            THEN ItemMessages(groove.events, groove.lengthInBeats, lastPosInGroove,
                              composerPosition - item.startBeat)
            ELSE << >>)
           \o ComposerMessagesByPatternLength(Tail(items), lastPositionInComposer, composerPosition)

\* The loop over the composer items.
RECURSIVE ComposerMessages(_, _, _)
ComposerMessages(items, lastPositionInComposer, composerPosition) ==
  IF items = << >> THEN << >>
  ELSE LET item == Head(items)
           groove == getGroove(categories, item.grooveCategoryIndex, item.grooveIndex)
           a == lastPositionInComposer - item.startBeat
           lastPosInGroove == IF a < 0 THEN 0 ELSE a
       IN  (IF /\ ~IsNull(groove) /\ groove.isLoaded
               /\ composerPosition >= item.startBeat
               /\ composerPosition < item.startBeat + item.lengthInBeats
            THEN ItemMessages(groove.events, item.lengthInBeats, lastPosInGroove,
                              composerPosition - item.startBeat)
            ELSE << >>)
           \o ComposerMessages(Tail(items), lastPositionInComposer, composerPosition)

\* `while (composerPosition >= composerLength && composerLength > 0)`
ComposerWraps(position, length) == IF length > 0 THEN Wraps(position, length) ELSE 0

\* `if (composerPlaying) { ... }`
ComposerBranch(useInternal, beatsThisBlock, ipb1, currentPosition, previousPosition) ==
  LET first == composerStartPpq < 0
      start1 == IF first THEN currentPosition ELSE composerStartPpq
      prev1 == IF first THEN currentPosition ELSE previousPosition
      ipb2 == IF first THEN 0 ELSE ipb1
      cp0 == IF useInternal THEN ipb2 ELSE currentPosition - start1
      composerLength == getComposerLengthInBeats(composerItems)
      k == IF looping THEN ComposerWraps(cp0, composerLength) ELSE 0
      composerPosition == cp0 - k * composerLength
      start2 == IF useInternal THEN start1 ELSE start1 + k * composerLength
      ipb3 == IF useInternal THEN ipb2 - k * composerLength ELSE ipb2
      lastPositionInComposer ==
        ComposerLastPosition(useInternal, composerPosition, beatsThisBlock, prev1, start2,
                             composerLength)
  IN  IF ~looping /\ cp0 >= composerLength
      THEN BlockResult(playing, FALSE, playbackStartPpq, start1, ipb2, lastProcessedPpq,
                       << >>, "composer", "end", 0, 0)
      ELSE BlockResult(playing, TRUE, playbackStartPpq, start2, ipb3, currentPosition,
                       ComposerMessages(composerItems, lastPositionInComposer,
                                        composerPosition),
                       "composer", "scan", lastPositionInComposer, composerPosition)

\* A faulty processBlock that moves the accumulator on in every internal-clock
\* block, whether anything plays or not.
processBlockAdvancesIdle(bpm, ppqPosition, hostIsPlaying, numSamples) ==
  LET useInternal == UseInternal(hostIsPlaying)
      beatsThisBlock == BeatsThisBlock(EffectiveBpm(bpm), numSamples, currentSampleRate)
      advance == useInternal
      ipb1 == IF advance THEN internalPositionBeats + beatsThisBlock
              ELSE internalPositionBeats
      currentPosition == IF advance THEN ipb1 ELSE ppqPosition
      previousPosition == IF advance THEN internalPositionBeats ELSE lastProcessedPpq
  IN  IF playing /\ ~composerPlaying
      THEN SingleBranch(useInternal, beatsThisBlock, ipb1, currentPosition, previousPosition)
      ELSE IF composerPlaying
      THEN ComposerBranch(useInternal, beatsThisBlock, ipb1, currentPosition,
                          previousPosition)
      ELSE BlockResult(playing, composerPlaying, playbackStartPpq, composerStartPpq, ipb1,
                       lastProcessedPpq, << >>, "idle", "idle", 0, 0)

\* A faulty processBlock that moves the accumulator on only while a single groove
\* plays, so that the composer's position stands still.
processBlockAdvancesSingleOnly(bpm, ppqPosition, hostIsPlaying, numSamples) ==
  LET useInternal == UseInternal(hostIsPlaying)
      beatsThisBlock == BeatsThisBlock(EffectiveBpm(bpm), numSamples, currentSampleRate)
      advance == useInternal /\ playing
      ipb1 == IF advance THEN internalPositionBeats + beatsThisBlock
              ELSE internalPositionBeats
      currentPosition == IF advance THEN ipb1 ELSE ppqPosition
      previousPosition == IF advance THEN internalPositionBeats ELSE lastProcessedPpq
  IN  IF playing /\ ~composerPlaying
      THEN SingleBranch(useInternal, beatsThisBlock, ipb1, currentPosition, previousPosition)
      ELSE IF composerPlaying
      THEN ComposerBranch(useInternal, beatsThisBlock, ipb1, currentPosition,
                          previousPosition)
      ELSE BlockResult(playing, composerPlaying, playbackStartPpq, composerStartPpq, ipb1,
                       lastProcessedPpq, << >>, "idle", "idle", 0, 0)

\* processBlock as a whole: what it leaves behind.
processBlock(bpm, ppqPosition, hostIsPlaying, numSamples) ==
  LET useInternal == UseInternal(hostIsPlaying)
      beatsThisBlock == BeatsThisBlock(EffectiveBpm(bpm), numSamples, currentSampleRate)
      advance == useInternal /\ (playing \/ composerPlaying)
      ipb1 == IF advance THEN internalPositionBeats + beatsThisBlock
              ELSE internalPositionBeats
      currentPosition == IF advance THEN ipb1 ELSE ppqPosition
      previousPosition == IF advance THEN internalPositionBeats ELSE lastProcessedPpq
  IN  IF playing /\ ~composerPlaying
      THEN SingleBranch(useInternal, beatsThisBlock, ipb1, currentPosition, previousPosition)
      ELSE IF composerPlaying
      THEN ComposerBranch(useInternal, beatsThisBlock, ipb1, currentPosition,
                          previousPosition)
      ELSE BlockResult(playing, composerPlaying, playbackStartPpq, composerStartPpq, ipb1,
                       lastProcessedPpq, << >>, "idle", "idle", 0, 0)

(***************************************************************************)
(* The observer.  It is no part of the program.  Off, it never changes.    *)
(* Armed as "end" it remembers that a non-looping playback ran out and no  *)
(* start command followed.  Armed as "loop" it follows one single-groove   *)
(* run from its start command: the host position the next block will       *)
(* report (hostNext), the beats the clock has advanced since the run's     *)
(* first block (trav) and how often each stored event was emitted (fired). *)
(* Armed as "timeline" it follows one composer run the same way, counting  *)
(* per timeline item and stored event.                                     *)
(***************************************************************************)
RECURSIVE CountIn(_, _)
CountIn(m, out) ==
  IF out = << >> THEN 0 ELSE (IF Head(out) = m THEN 1 ELSE 0) + CountIn(m, Tail(out))

LoopIdle(w) == [w EXCEPT !.phase = "idle", !.anchor = -1, !.trav = 0, !.fired = << >>]

TimelineIdle(w) == [w EXCEPT !.phase = "idle", !.trav = 0, !.fired = << >>]

\* The events of the pattern of timeline item i.
ItemEvents(i) == getGroove(categories, composerItems[i].grooveCategoryIndex, composerItems[i].grooveIndex).events

\* The timeline item i holds the position a composer block scanned at.
HoldsPosition(i, position) ==
  /\ position >= composerItems[i].startBeat
  /\ position < composerItems[i].startBeat + composerItems[i].lengthInBeats

WatchCommand ==
  watch' = IF watch.mode = "loop" THEN LoopIdle(watch)
           ELSE IF watch.mode = "timeline" THEN TimelineIdle(watch)
           ELSE watch

\* After startPlayback: ok is its success, groove the groove it started.
WatchStartSingle(ok, groove) ==
  watch' = IF ~ok THEN watch
           ELSE IF watch.mode = "end" THEN [watch EXCEPT !.ended = FALSE]
           ELSE IF watch.mode = "loop"
           THEN [watch EXCEPT !.phase = "started", !.anchor = -1, !.trav = 0,
                              !.fired = [i \in 1..Len(groove.events) |-> 0]]
           ELSE IF watch.mode = "timeline" THEN TimelineIdle(watch)
           ELSE watch

WatchStartComposer(ok) ==
  watch' = IF ~ok THEN watch
           ELSE IF watch.mode = "end" THEN [watch EXCEPT !.ended = FALSE]
           ELSE IF watch.mode = "loop" THEN LoopIdle(watch)
           ELSE IF watch.mode = "timeline"
           THEN [watch EXCEPT !.phase = "started", !.trav = 0,
                              !.fired = [i \in 1..Len(composerItems) |->
                                           [e \in 1..Len(ItemEvents(i)) |-> 0]]]
           ELSE watch

\* After a block with result r: the host was at ppqPosition and moves on by
\* hostBeats; the scheduler's clock moved by beatsThisBlock.
WatchBlock(r, ppqPosition, hostBeats, useInternal, beatsThisBlock, groove) ==
  watch' =
    IF watch.mode = "end" THEN [watch EXCEPT !.ended = (@ \/ r.exit = "end")]
    ELSE IF watch.mode = "loop"
    THEN IF watch.phase # "idle" /\ r.branch = "single" /\ r.exit = "scan"
         THEN [watch EXCEPT
                 !.phase = "running",
                 !.hostNext = ppqPosition + hostBeats,
                 !.anchor = IF watch.phase = "started" THEN ppqPosition ELSE @,
                 !.trav = IF watch.phase = "started" THEN 0
                          ELSE IF useInternal THEN @ + beatsThisBlock
                          ELSE ppqPosition - watch.anchor,
                 !.fired = [i \in DOMAIN watch.fired |->
                              watch.fired[i] + CountIn(groove.events[i].message, r.midiOut)]]
         ELSE [LoopIdle(watch) EXCEPT !.hostNext = ppqPosition + hostBeats]
    ELSE IF watch.mode = "timeline"
    THEN IF watch.phase # "idle" /\ r.branch = "composer" /\ r.exit = "scan"
         THEN [watch EXCEPT
                 !.phase = "running",
                 !.trav = IF watch.phase = "started" THEN 0 ELSE @ + beatsThisBlock,
                 !.fired = [i \in DOMAIN watch.fired |->
                              [e \in DOMAIN watch.fired[i] |->
                                 watch.fired[i][e]
                                   + (IF HoldsPosition(i, r.position)
                                      THEN CountIn(ItemEvents(i)[e].message, r.midiOut)
                                      ELSE 0)]]]
         ELSE TimelineIdle(watch)
    ELSE watch

(***************************************************************************)
(* The state after construction.                                           *)
(***************************************************************************)
InitManager ==
  /\ categories = << >>
  /\ playing = FALSE
  /\ looping = TRUE
  /\ currentCategoryIndex = -1
  /\ currentGrooveIndex = -1
  /\ playbackStartPpq = 0
  /\ lastProcessedPpq = -1
  /\ internalBpm = DefaultInternalBpm
  /\ internalPositionBeats = 0
  /\ useInternalClock = TRUE
  /\ composerItems = << >>
  /\ composerPlaying = FALSE
  /\ composerStartPpq = 0
  /\ currentSampleRate = DefaultSampleRate
  /\ midiOut = << >>
  /\ lastOp = [op |-> "construct"]

\* No call of processBlock is under way.
InitAudio == audio = [pc |-> "out"]

\* struct RhythmPattern with its default member values; the confidence is kept in
\* hundredths and beat times in thousandths of a beat (the code has doubles).
RhythmPattern == [bpm |-> 120, confidence |-> 0, alternativeBpms |-> << >>, onsetTimesBeats |-> << >>, beatsPerBar |-> 4, lengthInBeats |-> 0]

\* An empty juce::AudioBuffer: no samples, so no energy windows, and nothing for the
\* tempo estimator to find.
NoAudio == [numSamples |-> 0, energy |-> << >>, tempo |-> 0, candidates |-> << >>]

\* The analyzer's members after construction (AudioAnalyzer.h); lengths in milliseconds.
InitAnalyzer ==
  analyzer = [audioBuffer |-> NoAudio, audioSampleRate |-> 44100, audioLengthSeconds |-> 0,
              loadedFileName |-> << >>, audioLoaded |-> FALSE, detectedPattern |-> RhythmPattern,
              analysisComplete |-> FALSE, analysisProgress |-> 0, lastResult |-> [op |-> "none", ok |-> FALSE, bpm |-> 0, onsets |-> -1]]

\* The panel after construction (BandmatePanel.h): no analysis running, no worker
\* thread, nothing posted to the message thread.  `started` counts the analyses
\* started, `delivered` lists the analyses whose completion callback has run.
InitPanel ==
  panel = [isAnalyzing |-> FALSE, matchResults |-> << >>, selectedMatchIndex |-> -1,
           workers |-> << >>, callbacks |-> << >>, started |-> 0, delivered |-> << >>,
           lastStep |-> "none"]

InitProbe == probe = [fn |-> "none"]

InitRest == InitAudio /\ InitAnalyzer /\ InitPanel /\ InitProbe

Init == InitManager /\ InitRest /\ watch = [mode |-> "off"]

(***************************************************************************)
(* Inputs.                                                                 *)
(***************************************************************************)
\* (category, groove) arguments: the three catalog entries and indices out of range.
GrooveRefs == { << 0, 0 >>, << 0, 1 >>, << 1, 0 >>, << -1, 0 >>, << 2, 0 >>, << 0, -1 >>,
                << 0, 2 >> }
ItemIndices == -1..MaxItems
BarCounts == 0..2
PreviewBpms == {120, 240}
HostBpms == {0, 120}
BlockSizes == {22050, 44100}
SampleRates == {44100}
HostPositions == 0..MaxPpq

\* A command: it pushes no MIDI.
Command(name) ==
  /\ lastOp' = [op |-> name]
  /\ midiOut' = << >>
  /\ WatchCommand

(***************************************************************************)
(* Operations.                                                             *)
(***************************************************************************)
\* pathExists: groovesPath.exists() && groovesPath.isDirectory()
\* `juce::ScopedLock sl(lock);` at the head of a function: the function runs, as
\* one step, only while no call of processBlock holds the lock.
ScopedLock == audio.pc = "out"

ScanGrooves(pathExists) ==
  /\ categories' = IF pathExists THEN ScanFrom(1) ELSE << >>
  /\ Command("scanGrooves")
  /\ UNCHANGED << singleVars, looping, clockVars, composerVars >>
  /\ ScopedLock
  /\ UNCHANGED restVars

LoadGroove(c, g) ==
  \E r \in { loadGroove(categories, c, g) } :
  /\ categories' = r.cats
  /\ lastOp' = [op |-> "loadGroove", ok |-> r.ok, categoryIndex |-> c, grooveIndex |-> g,
                wasLoaded |-> getGroove(categories, c, g).isLoaded]
  /\ midiOut' = << >>
  /\ WatchCommand
  /\ UNCHANGED << singleVars, looping, clockVars, composerVars >>
  /\ ScopedLock
  /\ UNCHANGED restVars

StartPlayback(c, g) ==
  \E r \in { loadGroove(categories, c, g) } :
  /\ lastOp' = [op |-> "startPlayback", ok |-> r.ok, categoryIndex |-> c, grooveIndex |-> g]
  /\ midiOut' = << >>
  /\ WatchStartSingle(r.ok, getGroove(r.cats, c, g))
  /\ IF r.ok
     THEN /\ categories' = r.cats
          /\ currentCategoryIndex' = c
          /\ currentGrooveIndex' = g
          /\ playing' = TRUE
          /\ playbackStartPpq' = -1
          /\ lastProcessedPpq' = -1
          /\ internalPositionBeats' = 0
          /\ UNCHANGED << looping, internalBpm, useInternalClock, currentSampleRate,
                          composerVars >>
     ELSE /\ categories' = r.cats
          /\ UNCHANGED << singleVars, looping, clockVars, composerVars >>
  /\ ScopedLock
  /\ UNCHANGED restVars

\* A faulty stopPlayback that stops the composer as well.
StopPlaybackBoth ==
  /\ playing' = FALSE
  /\ composerPlaying' = FALSE
  /\ currentCategoryIndex' = -1
  /\ currentGrooveIndex' = -1
  /\ Command("stopPlayback")
  /\ UNCHANGED << categories, playbackStartPpq, looping, clockVars, composerItems,
                  composerStartPpq >>
  /\ ScopedLock
  /\ UNCHANGED restVars

StopPlayback ==
  /\ playing' = FALSE
  /\ currentCategoryIndex' = -1
  /\ currentGrooveIndex' = -1
  /\ Command("stopPlayback")
  /\ UNCHANGED << categories, playbackStartPpq, looping, clockVars, composerVars >>
  /\ ScopedLock
  /\ UNCHANGED restVars

\* A faulty setLooping that also rewinds: it drops the anchors and the accumulator.
SetLoopingRewinds(shouldLoop) ==
  /\ looping' = shouldLoop
  /\ playbackStartPpq' = -1
  /\ composerStartPpq' = -1
  /\ internalPositionBeats' = 0
  /\ Command("setLooping")
  /\ UNCHANGED << categories, playing, currentCategoryIndex, currentGrooveIndex,
                  lastProcessedPpq, internalBpm, useInternalClock, currentSampleRate,
                  composerItems, composerPlaying >>
  /\ UNCHANGED restVars

SetLooping(shouldLoop) ==
  /\ looping' = shouldLoop
  /\ Command("setLooping")
  /\ UNCHANGED << categories, singleVars, clockVars, composerVars >>
  /\ UNCHANGED restVars

SetSampleRate(sampleRate) ==
  /\ currentSampleRate' = sampleRate
  /\ Command("setSampleRate")
  /\ UNCHANGED << categories, singleVars, looping, internalBpm, internalPositionBeats,
                  useInternalClock, lastProcessedPpq, composerVars >>
  /\ UNCHANGED restVars

SetPreviewBPM(bpm) ==
  /\ internalBpm' = bpm
  /\ useInternalClock' = TRUE
  /\ Command("setPreviewBPM")
  /\ UNCHANGED << categories, singleVars, looping, internalPositionBeats,
                  lastProcessedPpq, currentSampleRate, composerVars >>
  /\ UNCHANGED restVars

UseDAWTiming ==
  /\ useInternalClock' = FALSE
  /\ Command("useDAWTiming")
  /\ UNCHANGED << categories, singleVars, looping, internalBpm, internalPositionBeats,
                  lastProcessedPpq, currentSampleRate, composerVars >>
  /\ UNCHANGED restVars

ResetPlaybackPosition ==
  /\ internalPositionBeats' = 0
  /\ playbackStartPpq' = -1
  /\ Command("resetPlaybackPosition")
  /\ UNCHANGED << categories, playing, currentCategoryIndex, currentGrooveIndex, looping,
                  internalBpm, useInternalClock, lastProcessedPpq, currentSampleRate,
                  composerVars >>
  /\ UNCHANGED restVars

ProcessBlock(bpm, ppqPosition, hostIsPlaying, numSamples) ==
  \E r \in { processBlock(bpm, ppqPosition, hostIsPlaying, numSamples) } :
  /\ r.internalPositionBeats <= MaxInternalBeats
  /\ playing' = r.playing
  /\ composerPlaying' = r.composerPlaying
  /\ playbackStartPpq' = r.playbackStartPpq
  /\ composerStartPpq' = r.composerStartPpq
  /\ internalPositionBeats' = r.internalPositionBeats
  /\ lastProcessedPpq' = r.lastProcessedPpq
  /\ midiOut' = r.midiOut
  /\ lastOp' = [op |-> "processBlock", branch |-> r.branch, exit |-> r.exit,
                lastPosition |-> r.lastPosition, position |-> r.position,
                useInternal |-> UseInternal(hostIsPlaying),
                effectiveBpm |-> EffectiveBpm(bpm)]
  /\ WatchBlock(r, ppqPosition, BeatsThisBlock(bpm, numSamples, currentSampleRate),
                UseInternal(hostIsPlaying),
                BeatsThisBlock(EffectiveBpm(bpm), numSamples, currentSampleRate),
                getGroove(categories, currentCategoryIndex, currentGrooveIndex))
  /\ UNCHANGED << categories, currentCategoryIndex, currentGrooveIndex, looping,
                  internalBpm, useInternalClock, currentSampleRate, composerItems >>
  /\ ScopedLock
  /\ UNCHANGED restVars

(***************************************************************************)
(* processBlock step by step, as the audio thread runs it while the UI     *)
(* thread calls the inline setters of the header, which take no lock.      *)
(* BlockBegin takes the lock and runs up to the test of the loop flag      *)
(* (lines 278-346 and 414-432), BlockWrap is the wrap-or-stop test (348-   *)
(* 365 and 434-451), BlockScan computes the last position, pushes the      *)
(* events and releases the lock (367-412 and 453-501).  Each step reads    *)
(* the members as they are when it runs.                                   *)
(***************************************************************************)
\* The call so far: its branch, its locals and the position before the wrap.
BlockLocals(branch, useInternal, effectiveBpm, beatsThisBlock, currentPosition, previousPosition, position) ==
  [pc |-> "wrap", branch |-> branch, useInternal |-> useInternal,
   effectiveBpm |-> effectiveBpm, beatsThisBlock |-> beatsThisBlock,
   currentPosition |-> currentPosition, previousPosition |-> previousPosition,
   position |-> position]

\* The call returned: what it reports.
BlockReturn(branch, exit, lastPosition, position, useInternal, effectiveBpm) ==
  /\ audio' = [pc |-> "out"]
  /\ lastOp' = [op |-> "processBlock", branch |-> branch, exit |-> exit,
                lastPosition |-> lastPosition, position |-> position,
                useInternal |-> useInternal, effectiveBpm |-> effectiveBpm]

BlockBegin(bpm, ppqPosition, hostIsPlaying, numSamples) ==
  LET useInternal == UseInternal(hostIsPlaying)
      effectiveBpm == EffectiveBpm(bpm)
      beatsThisBlock == BeatsThisBlock(effectiveBpm, numSamples, currentSampleRate)
      advance == useInternal /\ (playing \/ composerPlaying)
      ipb1 == IF advance THEN internalPositionBeats + beatsThisBlock
              ELSE internalPositionBeats
      currentPosition == IF advance THEN ipb1 ELSE ppqPosition
      previousPosition == IF advance THEN internalPositionBeats ELSE lastProcessedPpq
      groove == getGroove(categories, currentCategoryIndex, currentGrooveIndex)
      single == playing /\ ~composerPlaying
      anchor == IF single THEN playbackStartPpq ELSE composerStartPpq
      first == anchor < 0
      start1 == IF first THEN currentPosition ELSE anchor
      prev1 == IF first THEN currentPosition ELSE previousPosition
      ipb2 == IF first THEN 0 ELSE ipb1
      position == IF useInternal THEN ipb2 ELSE currentPosition - start1
  IN
  /\ ScopedLock
  /\ ipb1 <= MaxInternalBeats
  /\ midiOut' = << >>
  /\ IF single /\ (IsNull(groove) \/ ~groove.isLoaded)
     THEN /\ playing' = FALSE
          /\ internalPositionBeats' = ipb1
          /\ BlockReturn("single", "unloaded", 0, 0, useInternal, effectiveBpm)
          /\ UNCHANGED << playbackStartPpq, composerStartPpq >>
     ELSE IF single \/ composerPlaying
     THEN /\ internalPositionBeats' = ipb2
          /\ IF single
             THEN playbackStartPpq' = start1 /\ UNCHANGED composerStartPpq
             ELSE composerStartPpq' = start1 /\ UNCHANGED playbackStartPpq
          /\ audio' = BlockLocals(IF single THEN "single" ELSE "composer", useInternal,
                                  effectiveBpm, beatsThisBlock, currentPosition, prev1,
                                  position)
          /\ lastOp' = [op |-> "processBlock", branch |-> audio'.branch,
                        exit |-> "running"]
          /\ UNCHANGED playing
     ELSE /\ internalPositionBeats' = ipb1
          /\ BlockReturn("idle", "idle", 0, 0, useInternal, effectiveBpm)
          /\ UNCHANGED << playing, playbackStartPpq, composerStartPpq >>
  /\ UNCHANGED << categories, currentCategoryIndex, currentGrooveIndex, looping,
                  internalBpm, useInternalClock, currentSampleRate, composerItems,
                  composerPlaying, lastProcessedPpq, watch, analyzer, panel, probe >>

\* The length the call under way wraps at.
BlockLengthNow ==
  IF audio.branch = "single"
  THEN getGroove(categories, currentCategoryIndex, currentGrooveIndex).lengthInBeats
  ELSE getComposerLengthInBeats(composerItems)

BlockWrap ==
  LET single == audio.branch = "single"
      length == BlockLengthNow
      k == IF single THEN Wraps(audio.position, length)
           ELSE ComposerWraps(audio.position, length)
  IN
  /\ audio.pc = "wrap"
  /\ IF looping
     THEN /\ audio' = [audio EXCEPT !.pc = "scan", !.position = @ - k * length]
          /\ IF audio.useInternal
             THEN /\ internalPositionBeats' = internalPositionBeats - k * length
                  /\ UNCHANGED << playbackStartPpq, composerStartPpq >>
             ELSE /\ IF single
                     THEN /\ playbackStartPpq' = playbackStartPpq + k * length
                          /\ UNCHANGED composerStartPpq
                     ELSE /\ composerStartPpq' = composerStartPpq + k * length
                          /\ UNCHANGED playbackStartPpq
                  /\ UNCHANGED internalPositionBeats
          /\ UNCHANGED << playing, composerPlaying, lastOp >>
     ELSE IF audio.position >= length
     THEN /\ IF single
             THEN playing' = FALSE /\ UNCHANGED composerPlaying
             ELSE composerPlaying' = FALSE /\ UNCHANGED playing
          /\ BlockReturn(audio.branch, "end", 0, 0, audio.useInternal, audio.effectiveBpm)
          /\ UNCHANGED << playbackStartPpq, composerStartPpq, internalPositionBeats >>
     ELSE /\ audio' = [audio EXCEPT !.pc = "scan"]
          /\ UNCHANGED << playing, composerPlaying, playbackStartPpq, composerStartPpq,
                          internalPositionBeats, lastOp >>
  /\ UNCHANGED << categories, currentCategoryIndex, currentGrooveIndex, looping,
                  internalBpm, useInternalClock, currentSampleRate, composerItems,
                  lastProcessedPpq, midiOut, watch, analyzer, panel, probe >>

BlockScan ==
  LET single == audio.branch = "single"
      length == BlockLengthNow
      lastPosition ==
        IF single
        THEN SingleLastPosition(audio.useInternal, audio.position, audio.beatsThisBlock,
                                audio.previousPosition, playbackStartPpq, length)
        ELSE ComposerLastPosition(audio.useInternal, audio.position,
                                  audio.beatsThisBlock, audio.previousPosition,
                                  composerStartPpq, length)
  IN
  /\ audio.pc = "scan"
  /\ midiOut' =
       IF single
       THEN TriggeredMessages(getGroove(categories, currentCategoryIndex,
                                        currentGrooveIndex).events,
                              lastPosition, audio.position)
       ELSE ComposerMessages(composerItems, lastPosition, audio.position)
  /\ lastProcessedPpq' = audio.currentPosition
  /\ BlockReturn(audio.branch, "scan", lastPosition, audio.position, audio.useInternal,
                 audio.effectiveBpm)
  /\ UNCHANGED << categories, playing, currentCategoryIndex, currentGrooveIndex, looping,
                  playbackStartPpq, internalBpm, internalPositionBeats, useInternalClock,
                  composerItems, composerPlaying, composerStartPpq, currentSampleRate,
                  watch, analyzer, panel, probe >>

AddToComposer(c, g, barCount) ==
  \E r \in { loadGroove(categories, c, g) } :
  /\ lastOp' = [op |-> "addToComposer", ok |-> r.ok, categoryIndex |-> c, grooveIndex |-> g,
                barCount |-> barCount]
  /\ midiOut' = << >>
  /\ WatchCommand
  /\ IF r.ok
     THEN /\ Len(composerItems) < MaxItems
          /\ categories' = r.cats
          /\ composerItems' =
               Append(composerItems,
                      NewComposerItem(composerItems, getGroove(r.cats, c, g), c, g, barCount))
          /\ UNCHANGED << singleVars, looping, clockVars, composerPlaying,
                          composerStartPpq >>
     ELSE /\ categories' = r.cats
          /\ UNCHANGED << singleVars, looping, clockVars, composerVars >>
  /\ ScopedLock
  /\ UNCHANGED restVars

\* A faulty removeFromComposer that takes an index past the end for the last item.
RemoveFromComposerClamped(index) ==
  \E ok \in { index >= 0 /\ composerItems # << >> } :
  /\ composerItems' =
       IF ok THEN RemoveItem(composerItems, Min2(index, Len(composerItems) - 1))
       ELSE composerItems
  /\ lastOp' = [op |-> "removeFromComposer", ok |-> ok, index |-> index]
  /\ midiOut' = << >>
  /\ WatchCommand
  /\ UNCHANGED << categories, singleVars, looping, clockVars, composerPlaying,
                  composerStartPpq >>
  /\ ScopedLock
  /\ UNCHANGED restVars

RemoveFromComposer(index) ==
  \E ok \in { index >= 0 /\ index < Len(composerItems) } :
  /\ composerItems' = IF ok THEN RemoveItem(composerItems, index) ELSE composerItems
  /\ lastOp' = [op |-> "removeFromComposer", ok |-> ok, index |-> index]
  /\ midiOut' = << >>
  /\ WatchCommand
  /\ UNCHANGED << categories, singleVars, looping, clockVars, composerPlaying,
                  composerStartPpq >>
  /\ ScopedLock
  /\ UNCHANGED restVars

\* A faulty clearComposer that forgets the composer's playing flag.
ClearComposerKeepsPlaying ==
  /\ composerItems' = << >>
  /\ lastOp' = [op |-> "clearComposer", cleared |-> Len(composerItems),
                wasPlaying |-> composerPlaying]
  /\ midiOut' = << >>
  /\ WatchCommand
  /\ UNCHANGED << categories, singleVars, looping, clockVars, composerPlaying,
                  composerStartPpq >>
  /\ ScopedLock
  /\ UNCHANGED restVars

ClearComposer ==
  /\ composerItems' = << >>
  /\ composerPlaying' = FALSE
  /\ lastOp' = [op |-> "clearComposer", cleared |-> Len(composerItems),
                wasPlaying |-> composerPlaying]
  /\ midiOut' = << >>
  /\ WatchCommand
  /\ UNCHANGED << categories, singleVars, looping, clockVars, composerStartPpq >>
  /\ ScopedLock
  /\ UNCHANGED restVars

MoveComposerItem(fromIndex, toIndex) ==
  \E ok \in { /\ fromIndex >= 0 /\ fromIndex < Len(composerItems)
              /\ toIndex >= 0 /\ toIndex < Len(composerItems)
              /\ fromIndex # toIndex } :
  /\ composerItems' = IF ok THEN MoveItem(composerItems, fromIndex, toIndex)
                      ELSE composerItems
  /\ lastOp' = [op |-> "moveComposerItem", ok |-> ok, fromIndex |-> fromIndex,
                toIndex |-> toIndex]
  /\ midiOut' = << >>
  /\ WatchCommand
  /\ UNCHANGED << categories, singleVars, looping, clockVars, composerPlaying,
                  composerStartPpq >>
  /\ ScopedLock
  /\ UNCHANGED restVars

\* "Make sure all grooves are loaded": loadGroove on every item's groove, in order.
RECURSIVE LoadItems(_, _)
LoadItems(cats, items) ==
  IF items = << >> THEN cats
  ELSE LoadItems(loadGroove(cats, Head(items).grooveCategoryIndex,
                            Head(items).grooveIndex).cats,
                 Tail(items))

\* A faulty startComposerPlayback without the early return on an empty timeline.
StartComposerPlaybackUnguarded ==
  /\ midiOut' = << >>
  /\ lastOp' = [op |-> "startComposerPlayback", ok |-> composerItems # << >>]
  /\ WatchStartComposer(composerItems # << >>)
  /\ categories' = LoadItems(categories, composerItems)
  /\ composerPlaying' = TRUE
  /\ playing' = FALSE
  /\ composerStartPpq' = -1
  /\ lastProcessedPpq' = -1
  /\ internalPositionBeats' = 0
  /\ UNCHANGED << currentCategoryIndex, currentGrooveIndex, playbackStartPpq,
                  looping, internalBpm, useInternalClock, currentSampleRate,
                  composerItems >>
  /\ ScopedLock
  /\ UNCHANGED restVars

StartComposerPlayback ==
  /\ midiOut' = << >>
  /\ lastOp' = [op |-> "startComposerPlayback", ok |-> composerItems # << >>]
  /\ WatchStartComposer(composerItems # << >>)
  /\ IF composerItems = << >>
     THEN UNCHANGED << categories, singleVars, looping, clockVars, composerVars >>
     ELSE /\ categories' = LoadItems(categories, composerItems)
          /\ composerPlaying' = TRUE
          /\ playing' = FALSE
          /\ composerStartPpq' = -1
          /\ lastProcessedPpq' = -1
          /\ internalPositionBeats' = 0
          /\ UNCHANGED << currentCategoryIndex, currentGrooveIndex, playbackStartPpq,
                          looping, internalBpm, useInternalClock, currentSampleRate,
                          composerItems >>
  /\ ScopedLock
  /\ UNCHANGED restVars

StopComposerPlayback ==
  /\ composerPlaying' = FALSE
  /\ Command("stopComposerPlayback")
  /\ UNCHANGED << categories, singleVars, looping, clockVars, composerItems,
                  composerStartPpq >>
  /\ ScopedLock
  /\ UNCHANGED restVars

(***************************************************************************)
(* The whole command surface.  Its state space is too large to enumerate;  *)
(* the specifications below each take the operations and inputs of one     *)
(* concern, so each of their steps is a step of Next.                      *)
(***************************************************************************)
Next ==
  \/ \E pathExists \in BOOLEAN : ScanGrooves(pathExists)
  \/ \E r \in GrooveRefs : LoadGroove(r[1], r[2])
  \/ \E r \in GrooveRefs : StartPlayback(r[1], r[2])
  \/ StopPlayback
  \/ \E b \in BOOLEAN : SetLooping(b)
  \/ \E sr \in SampleRates : SetSampleRate(sr)
  \/ \E bpm \in PreviewBpms : SetPreviewBPM(bpm)
  \/ UseDAWTiming
  \/ ResetPlaybackPosition
  \/ \E bpm \in HostBpms, ppq \in HostPositions, hostIsPlaying \in BOOLEAN,
        numSamples \in BlockSizes : ProcessBlock(bpm, ppq, hostIsPlaying, numSamples)
  \/ \E r \in GrooveRefs, barCount \in BarCounts : AddToComposer(r[1], r[2], barCount)
  \/ \E i \in ItemIndices : RemoveFromComposer(i)
  \/ ClearComposer
  \/ \E i \in ItemIndices, j \in ItemIndices : MoveComposerItem(i, j)
  \/ StartComposerPlayback
  \/ StopComposerPlayback

Spec == Init /\ [][Next]_vars

(***************************************************************************)
(* Catalog and composer timeline: scanning, loading and editing, with the  *)
(* composer start and stop commands (which load and set the mode flag).    *)
(***************************************************************************)
NextTimeline ==
  \/ \E pathExists \in BOOLEAN : ScanGrooves(pathExists)
  \/ \E r \in GrooveRefs : LoadGroove(r[1], r[2])
  \/ \E r \in GrooveRefs, barCount \in BarCounts : AddToComposer(r[1], r[2], barCount)
  \/ \E i \in ItemIndices : RemoveFromComposer(i)
  \/ ClearComposer
  \/ \E i \in ItemIndices, j \in ItemIndices : MoveComposerItem(i, j)
  \/ StartComposerPlayback
  \/ StopComposerPlayback

SpecTimeline == Init /\ [][NextTimeline]_vars

\* C2: the composer timeline is packed in every state reached by add, remove, move
\* and clear: the first item starts at beat 0 and every other item starts where
\* the item before it ends.
TimelinePacked ==
  \A i \in 1..Len(composerItems) :
    composerItems[i].startBeat =
      IF i = 1 THEN 0
      ELSE composerItems[i - 1].startBeat + composerItems[i - 1].lengthInBeats

\* C2's case: two items of different lengths have just changed places.
TimelineMoved ==
  /\ lastOp.op = "moveComposerItem" /\ lastOp.ok
  /\ Len(composerItems) = 2
  /\ composerItems[1].lengthInBeats # composerItems[2].lengthInBeats
  /\ composerItems[2].startBeat > 0

(***************************************************************************)
(* The two playback modes: the start and stop commands of both, the loop   *)
(* flag, clear, and blocks on the internal clock (the host is stopped; a   *)
(* block is one second at 120 bpm, two beats).  The single-groove commands *)
(* name the waltz, the composer gets the march, so the output of a block   *)
(* tells which of the two was played.                                      *)
(***************************************************************************)
SingleRefs == { << 0, 1 >>, << 1, 0 >>, << -1, 0 >> }
ComposerRefs == { << 0, 0 >>, << 1, 0 >> }

NextModes ==
  \/ ScanGrooves(TRUE)
  \/ \E r \in SingleRefs : StartPlayback(r[1], r[2])
  \/ StopPlayback
  \/ \E b \in BOOLEAN : SetLooping(b)
  \/ ProcessBlock(120, 0, FALSE, 44100)
  \/ \E r \in ComposerRefs : AddToComposer(r[1], r[2], 0)
  \/ ClearComposer
  \/ StartComposerPlayback
  \/ StopComposerPlayback

SpecModes == Init /\ [][NextModes]_vars

\* The same, with the observer watching for the end of a non-looping playback.
InitEndWatch == InitManager /\ InitRest /\ watch = [mode |-> "end", ended |-> FALSE]

SpecModesEnd == InitEndWatch /\ [][NextModes]_vars

\* C1: single-groove playback and composer playback are never both active: in
\* every reachable state at most one of playing and composerPlaying is true.
ModesExclusive == ~(playing /\ composerPlaying)

\* C7: after startPlayback the blocks play the started groove: while playing is
\* set, a block emits only messages of the current groove's events.
BlocksPlayStartedGroove ==
  (lastOp.op = "processBlock" /\ playing)
    => \A i \in 1..Len(midiOut) :
         \E e \in 1..Len(getGroove(categories, currentCategoryIndex,
                                   currentGrooveIndex).events) :
           getGroove(categories, currentCategoryIndex,
                     currentGrooveIndex).events[e].message = midiOut[i]

\* C6: once a non-looping playback has run past its length, no block emits an
\* event until a start command succeeds, and both modes are inactive.
SilentAfterEnd ==
  (watch.mode = "end" /\ watch.ended)
    => /\ ~playing /\ ~composerPlaying
       /\ midiOut = << >>

\* C8: startComposerPlayback on an empty timeline changes nothing; on a non-empty
\* timeline it sets composerPlaying, clears playing, clears the composer anchor
\* (-1) and puts the internal accumulator at 0.
StartComposerEffect ==
  [][lastOp'.op = "startComposerPlayback"
       => IF composerItems = << >>
          THEN UNCHANGED << categories, singleVars, looping, clockVars, composerVars >>
          ELSE /\ composerPlaying' /\ ~playing'
               /\ composerStartPpq' = -1
               /\ internalPositionBeats' = 0
               /\ UNCHANGED composerItems]_vars

\* C8's case: the composer was started on an empty timeline while a single groove
\* was playing with the accumulator advanced.
StartComposerOnEmpty ==
  /\ lastOp.op = "startComposerPlayback" /\ ~lastOp.ok
  /\ playing /\ ~composerPlaying
  /\ internalPositionBeats > 0

\* C9: stopPlayback leaves playing false and stopComposerPlayback leaves
\* composerPlaying false; each leaves the other flag, the timeline and the catalog
\* as they were; once both flags are false they stay false, and blocks emit
\* nothing, until a start command.
StopEffect ==
  [][/\ lastOp'.op = "stopPlayback"
          => ~playing' /\ UNCHANGED << composerPlaying, composerItems, categories >>
     /\ lastOp'.op = "stopComposerPlayback"
          => ~composerPlaying' /\ UNCHANGED << playing, composerItems, categories >>
     /\ (~playing /\ ~composerPlaying
         /\ lastOp'.op \notin {"startPlayback", "startComposerPlayback"})
          => ~playing' /\ ~composerPlaying' /\ midiOut' = << >>]_vars

\* C9's case: stopPlayback has stopped a single groove while the composer, with a
\* loaded item on its timeline, goes on playing.
StoppedSingleOnly ==
  /\ lastOp.op = "stopPlayback"
  /\ composerPlaying /\ composerItems # << >>
  /\ currentCategoryIndex = -1
  /\ playbackStartPpq = -1

\* C10: clearComposer leaves the timeline empty (total length 0) and
\* composerPlaying false, and changes neither the single playback nor the catalog.
ClearEffect ==
  [][lastOp'.op = "clearComposer"
       => /\ composerItems' = << >>
          /\ getComposerLengthInBeats(composerItems') = 0
          /\ ~composerPlaying'
          /\ UNCHANGED << singleVars, categories >>]_vars

\* C10's case: a non-empty timeline was cleared while the composer was playing.
ClearedWhilePlaying ==
  /\ lastOp.op = "clearComposer"
  /\ lastOp.cleared > 0 /\ lastOp.wasPlaying

(***************************************************************************)
(* Single-groove playback on both clocks.  A stopped host reports no tempo *)
(* and its position is not read; a running host reports any position       *)
(* (jumps included) and a tempo or none.  A block is half a second or a    *)
(* second; the preview tempo is 120 or 240 bpm.                            *)
(***************************************************************************)
PlayableRefs == { << 0, 0 >>, << 0, 1 >>, << 1, 0 >> }

NextSingle ==
  \/ ScanGrooves(TRUE)
  \/ \E r \in PlayableRefs : StartPlayback(r[1], r[2])
  \/ StopPlayback
  \/ \E b \in BOOLEAN : SetLooping(b)
  \/ \E bpm \in PreviewBpms : SetPreviewBPM(bpm)
  \/ UseDAWTiming
  \/ ResetPlaybackPosition
  \/ \E numSamples \in BlockSizes : ProcessBlock(0, 0, FALSE, numSamples)
  \/ \E bpm \in HostBpms, ppq \in HostPositions, numSamples \in BlockSizes :
        ProcessBlock(bpm, ppq, TRUE, numSamples)

SpecSingle == Init /\ [][NextSingle]_vars

\* The groove the single-groove branch plays.
CurrentGroove == getGroove(categories, currentCategoryIndex, currentGrooveIndex)

\* The last step was a looping single-groove block that scanned the events.
LoopingSingleScan ==
  /\ lastOp.op = "processBlock" /\ lastOp.branch = "single" /\ lastOp.exit = "scan"
  /\ looping

InitLoopWatch ==
  /\ InitManager
  /\ InitRest
  /\ watch = [mode |-> "loop", phase |-> "idle", hostNext |-> 0, anchor |-> -1,
              trav |-> 0, fired |-> << >>]

LoopRefs == { << 0, 0 >>, << 0, 1 >> }

SteadyBlock(numSamples) ==
  /\ watch.hostNext \in HostPositions
  /\ playing =>
       BeatsThisBlock(EffectiveBpm(120), numSamples, currentSampleRate)
         < CurrentGroove.lengthInBeats
  /\ ProcessBlock(120, watch.hostNext, TRUE, numSamples)

NextLoop ==
  \/ ScanGrooves(TRUE)
  \/ \E r \in LoopRefs : StartPlayback(r[1], r[2])
  \/ \E bpm \in PreviewBpms : SetPreviewBPM(bpm)
  \/ UseDAWTiming
  \/ \E numSamples \in BlockSizes : SteadyBlock(numSamples)

SpecLoop == InitLoopWatch /\ [][NextLoop]_vars

\* C3: with looping on and a forward-moving clock that advances by less than the
\* length L per block, every stored event at a time t < L is emitted exactly once
\* per traversal of L beats, on the host clock and on the internal clock: after
\* the clock has advanced through n whole traversals since the run's first block,
\* the event has been emitted n times, or n + 1 times when the traversal under
\* way has passed it.
OncePerTraversal ==
  (watch.mode = "loop" /\ watch.phase = "running" /\ looping)
    => \A e \in DOMAIN watch.fired :
         CurrentGroove.events[e].timeInBeats < CurrentGroove.lengthInBeats
           => /\ watch.fired[e] >= watch.trav \div CurrentGroove.lengthInBeats
              /\ watch.fired[e] <= watch.trav \div CurrentGroove.lengthInBeats + 1

(***************************************************************************)
(* Composer playback: the timeline is built from the march and the waltz,  *)
(* whole or cut to one bar, and played on the internal clock at 120 or     *)
(* 240 bpm in blocks of half a second or a second (1, 2 or 4 beats).       *)
(***************************************************************************)
NextComposer ==
  \/ ScanGrooves(TRUE)
  \/ \E r \in LoopRefs, barCount \in {0, 1} : AddToComposer(r[1], r[2], barCount)
  \/ StartComposerPlayback
  \/ StopComposerPlayback
  \/ \E b \in BOOLEAN : SetLooping(b)
  \/ \E bpm \in PreviewBpms : SetPreviewBPM(bpm)
  \/ \E numSamples \in BlockSizes : ProcessBlock(0, 0, FALSE, numSamples)

SpecComposer == Init /\ [][NextComposer]_vars

\* Every timeline item's groove is in the catalog and loaded.
ItemsLoaded ==
  \A i \in 1..Len(composerItems) :
    /\ ValidGroove(categories, composerItems[i].grooveCategoryIndex,
                   composerItems[i].grooveIndex)
    /\ getGroove(categories, composerItems[i].grooveCategoryIndex,
                 composerItems[i].grooveIndex).isLoaded

\* How many events with message m item number i holds at a local time inside the
\* item's window that, moved to timeline time, lies in (from, to].
ItemEventsIn(i, m, from, to) ==
  LET item == composerItems[i]
      evts == getGroove(categories, item.grooveCategoryIndex, item.grooveIndex).events
  IN  Cardinality({ e \in 1..Len(evts) :
                      /\ evts[e].message = m
                      /\ evts[e].timeInBeats < item.lengthInBeats
                      /\ item.startBeat + evts[e].timeInBeats > from
                      /\ item.startBeat + evts[e].timeInBeats <= to })

RECURSIVE TimelineEventsIn(_, _, _, _)
TimelineEventsIn(i, m, from, to) ==
  IF i = 0 THEN 0 ELSE ItemEventsIn(i, m, from, to) + TimelineEventsIn(i - 1, m, from, to)

Messages == [note : {36, 38, 40, 42}, on : BOOLEAN]

\* C5: a composer block emits, for every item whose window meets the interval the
\* block covers, exactly the item's events whose local time lies in the
\* intersection, also when the interval covers the end of one item and the start
\* of the next (stated for blocks whose interval does not wrap).
ComposerBlockEmitsIntersection ==
  (/\ lastOp.op = "processBlock" /\ lastOp.branch = "composer" /\ lastOp.exit = "scan"
   /\ lastOp.lastPosition <= lastOp.position
   /\ ItemsLoaded)
    => \A m \in Messages :
         CountIn(m, midiOut)
           = TimelineEventsIn(Len(composerItems), m, lastOp.lastPosition, lastOp.position)

(***************************************************************************)
(* The timeline operations, one by one (checked under SpecTimeline).       *)
(***************************************************************************)
\* C11: addToComposer on a loadable groove appends exactly one item: it starts at
\* the total length before the call, its length is the groove's full length for
\* barCount 0 and min(barCount * beatsPerBar, groove length) otherwise, and the
\* items already there are unchanged.
AddAppendsOne ==
  [][(lastOp'.op = "addToComposer" /\ lastOp'.ok)
       => /\ Len(composerItems') = Len(composerItems) + 1
          /\ SubSeq(composerItems', 1, Len(composerItems)) = composerItems
          /\ LET item == composerItems'[Len(composerItems')]
                 groove == getGroove(categories', lastOp'.categoryIndex,
                                     lastOp'.grooveIndex)
             IN  /\ groove.isLoaded
                 /\ item.grooveCategoryIndex = lastOp'.categoryIndex
                 /\ item.grooveIndex = lastOp'.grooveIndex
                 /\ item.startBeat = SumLengths(composerItems)
                 /\ item.lengthInBeats =
                      IF lastOp'.barCount = 0 THEN groove.lengthInBeats
                      ELSE Min2(lastOp'.barCount * groove.numerator,
                                groove.lengthInBeats)]_vars

\* C11's case: after a whole march (4 beats), two bars of the waltz were asked
\* for; the item starts at beat 4 and is clipped to the waltz's 3 beats.
AddedClippedSecond ==
  /\ lastOp.op = "addToComposer" /\ lastOp.ok /\ lastOp.barCount = 2
  /\ Len(composerItems) = 2
  /\ composerItems[1].startBeat = 0 /\ composerItems[1].lengthInBeats = 4
  /\ composerItems[2].startBeat = 4 /\ composerItems[2].lengthInBeats = 3

ItemBody(item) ==
  << item.grooveCategoryIndex, item.grooveIndex, item.lengthInBeats >>

ItemBodies(items) == [i \in 1..Len(items) |-> ItemBody(items[i])]

RangeRefs == { << 0, 1 >>, << -1, 0 >>, << 2, 0 >>, << 0, -1 >>, << 0, 2 >> }

NextRange ==
  \/ ScanGrooves(TRUE)
  \/ \E r \in RangeRefs : LoadGroove(r[1], r[2])
  \/ \E r \in RangeRefs : StartPlayback(r[1], r[2])
  \/ \E r \in RangeRefs : AddToComposer(r[1], r[2], 0)
  \/ \E i \in ItemIndices : RemoveFromComposer(i)
  \/ \E i \in ItemIndices, j \in ItemIndices : MoveComposerItem(i, j)
  \/ StartComposerPlayback
  \/ ProcessBlock(120, 0, FALSE, 44100)

SpecRange == Init /\ [][NextRange]_vars

\* The step named a groove that is not in the catalog.
GrooveOutOfRange ==
  /\ lastOp'.op \in {"loadGroove", "startPlayback", "addToComposer"}
  /\ ~ValidGroove(categories, lastOp'.categoryIndex, lastOp'.grooveIndex)

\* The step named a timeline index that is not on the timeline.
ItemOutOfRange ==
  \/ /\ lastOp'.op = "removeFromComposer"
     /\ lastOp'.index \notin 0..(Len(composerItems) - 1)
  \/ /\ lastOp'.op = "moveComposerItem"
     /\ \/ lastOp'.fromIndex \notin 0..(Len(composerItems) - 1)
        \/ lastOp'.toIndex \notin 0..(Len(composerItems) - 1)

\* C14: loadGroove, startPlayback, addToComposer, removeFromComposer and
\* moveComposerItem with an out-of-bounds category, groove or item index change
\* nothing: timeline, catalog, mode, anchors and accumulator stay as they were.
OutOfRangeNoOp ==
  [][(GrooveOutOfRange \/ ItemOutOfRange)
       => UNCHANGED << categories, singleVars, looping, clockVars, composerVars >>]_vars

\* C14's case: startPlayback named a category past the end of the scanned catalog
\* while the composer was playing with the accumulator advanced.
StartOutOfRangeWhileComposing ==
  /\ lastOp.op = "startPlayback" /\ ~lastOp.ok
  /\ lastOp.categoryIndex = 2 /\ Len(categories) = 2
  /\ composerPlaying /\ ~playing
  /\ composerItems # << >>
  /\ internalPositionBeats > 0

(***************************************************************************)
(* Loading: the two good files, the unparsable one and the deleted one,    *)
(* loaded directly (also how the groove matcher loads) and through         *)
(* startPlayback, addToComposer and startComposerPlayback, while idle and  *)
(* while playing on the internal clock.                                    *)
(***************************************************************************)
LoadRefs == { << 0, 0 >>, << 0, 1 >>, << 1, 0 >>, << 1, 1 >> }

NextLoad ==
  \/ ScanGrooves(TRUE)
  \/ \E r \in LoadRefs : LoadGroove(r[1], r[2])
  \/ \E r \in LoadRefs : StartPlayback(r[1], r[2])
  \/ \E r \in LoadRefs : AddToComposer(r[1], r[2], 0)
  \/ StartComposerPlayback
  \/ ProcessBlock(120, 0, FALSE, 44100)

SpecLoad == Init /\ [][NextLoad]_vars

\* The step loaded, started or added a groove that was already loaded.
NamedLoadedGroove ==
  /\ lastOp'.op \in {"loadGroove", "startPlayback", "addToComposer"}
  /\ ValidGroove(categories, lastOp'.categoryIndex, lastOp'.grooveIndex)
  /\ getGroove(categories, lastOp'.categoryIndex, lastOp'.grooveIndex).isLoaded

\* C15: loading is idempotent: a further load of a loaded groove, directly or
\* through startPlayback, addToComposer or startComposerPlayback, succeeds and
\* leaves its events, time signature and length (the whole catalog) identical.
LoadIdempotent ==
  [][/\ NamedLoadedGroove => lastOp'.ok /\ categories' = categories
     /\ (lastOp'.op = "startComposerPlayback" /\ lastOp'.ok)
          => \A i \in 1..Len(composerItems) :
               LET c == composerItems[i].grooveCategoryIndex
                   g == composerItems[i].grooveIndex
               IN  (ValidGroove(categories, c, g) /\ getGroove(categories, c, g).isLoaded)
                     => getGroove(categories', c, g) = getGroove(categories, c, g)]_vars

\* C15's case: the loaded waltz (4 events, 3/4, 3 beats) was loaded once more.
LoadedAgain ==
  /\ lastOp.op = "loadGroove" /\ lastOp.ok /\ lastOp.wasLoaded
  /\ lastOp.categoryIndex = 0 /\ lastOp.grooveIndex = 1
  /\ Len(getGroove(categories, 0, 1).events) = 4
  /\ getGroove(categories, 0, 1).numerator = 3
  /\ getGroove(categories, 0, 1).lengthInBeats = 3

\* The step loaded, started or added an unloaded groove whose file is missing or
\* is not a MIDI file.
NamedUnloadableGroove ==
  /\ lastOp'.op \in {"loadGroove", "startPlayback", "addToComposer"}
  /\ ValidGroove(categories, lastOp'.categoryIndex, lastOp'.grooveIndex)
  /\ ~getGroove(categories, lastOp'.categoryIndex, lastOp'.grooveIndex).isLoaded
  /\ \/ ~DiskFile(getGroove(categories, lastOp'.categoryIndex,
                            lastOp'.grooveIndex).file).exists
     \/ ~DiskFile(getGroove(categories, lastOp'.categoryIndex,
                            lastOp'.grooveIndex).file).parses

\* C16: a load that fails (missing or unparsable file) reports failure, the
\* groove stays unloaded and in its category, and no other catalog entry, no
\* timeline item and no playback state changes; startPlayback and addToComposer
\* on such a groove change nothing.
FailedLoadChangesNothing ==
  [][NamedUnloadableGroove
       => /\ ~lastOp'.ok
          /\ ValidGroove(categories', lastOp'.categoryIndex, lastOp'.grooveIndex)
          /\ ~getGroove(categories', lastOp'.categoryIndex, lastOp'.grooveIndex).isLoaded
          /\ UNCHANGED << categories, singleVars, looping, clockVars, composerVars >>]_vars

\* C16's case: addToComposer named the deleted file while the waltz was playing
\* and the timeline held an item; the entry is still listed, unloaded.
AddFailedOnMissingFile ==
  /\ lastOp.op = "addToComposer" /\ ~lastOp.ok
  /\ lastOp.categoryIndex = 1 /\ lastOp.grooveIndex = 1
  /\ Len(categories) = 2 /\ Len(categories[2].grooves) = 3
  /\ categories[2].grooves[2].name = "Gone" /\ ~categories[2].grooves[2].isLoaded
  /\ playing /\ currentGrooveIndex = 1
  /\ Len(composerItems) = 1

(***************************************************************************)
(* The clock arbiter, looping: the library is scanned once; the waltz      *)
(* alone or the march as the one item of the composer timeline is played,  *)
(* the preview override switched on (at 120 or 240 bpm) and off, in       *)
(* blocks of half a second in which the host reports 120 bpm or no tempo   *)
(* and either stands still (its position is not read) or runs, at any      *)
(* position.                                                               *)
(***************************************************************************)
NextClock ==
  \/ categories = << >> /\ ScanGrooves(TRUE)
  \/ StartPlayback(0, 1)
  \/ composerItems = << >> /\ AddToComposer(0, 0, 0)
  \/ StartComposerPlayback
  \/ \E bpm \in PreviewBpms : SetPreviewBPM(bpm)
  \/ UseDAWTiming
  \/ \E bpm \in HostBpms : ProcessBlock(bpm, 0, FALSE, 22050)
  \/ \E bpm \in HostBpms, ppq \in HostPositions : ProcessBlock(bpm, ppq, TRUE, 22050)

SpecClock == Init /\ [][NextClock]_vars

\* What the arbiter rule says of a block that scans events after its anchor was
\* taken, given the block's inputs: with the override on or the host stopped the
\* position is the accumulator, moved on by the block's beats at the override
\* tempo (override on) or at the host's tempo if positive, else the internal one;
\* otherwise the position is the host's, measured from the anchor (which wraps
\* by whole lengths), and the accumulator is not touched.
ArbiterRule(bpm, ppqPosition, hostIsPlaying, numSamples) ==
  LET internal == useInternalClock \/ ~hostIsPlaying
      tempo == IF useInternalClock THEN internalBpm
               ELSE IF bpm > 0 THEN bpm ELSE internalBpm
      beats == (tempo * numSamples) \div (60 * currentSampleRate)
      single == lastOp'.branch = "single"
      length == IF single THEN CurrentGroove.lengthInBeats
                ELSE getComposerLengthInBeats(composerItems)
      anchor == IF single THEN playbackStartPpq ELSE composerStartPpq
      anchorAfter == IF single THEN playbackStartPpq' ELSE composerStartPpq'
  IN  (lastOp'.exit = "scan" /\ anchor >= 0)
        => /\ lastOp'.useInternal = internal
           /\ lastOp'.effectiveBpm = tempo
           /\ IF internal
              THEN /\ internalPositionBeats' = (internalPositionBeats + beats) % length
                   /\ lastOp'.position = internalPositionBeats'
                   /\ anchorAfter = anchor
              ELSE /\ lastOp'.position = ppqPosition - anchorAfter
                   /\ lastOp'.position < length
                   /\ anchorAfter >= anchor /\ (anchorAfter - anchor) % length = 0
                   /\ internalPositionBeats' = internalPositionBeats

\* The block just taken (one that scanned events) was called with these inputs:
\* they give the clock choice and tempo it recorded and, on the host clock, the
\* host position it stored.
BlockInputs(bpm, ppqPosition, hostIsPlaying) ==
  /\ lastOp'.useInternal = UseInternal(hostIsPlaying)
  /\ lastOp'.effectiveBpm = EffectiveBpm(bpm)
  /\ lastOp'.useInternal \/ lastProcessedPpq' = ppqPosition

\* C17: in every block the clock is the internal accumulator exactly when the
\* preview override is on or the host is not playing, and the host position
\* otherwise; the tempo is the override's when it is on, else the host's if
\* positive, else the internal one.
ClockArbiter ==
  [][(lastOp'.op = "processBlock" /\ lastOp'.exit = "scan")
       => \A bpm \in HostBpms, ppq \in HostPositions, hostIsPlaying \in BOOLEAN :
            BlockInputs(bpm, ppq, hostIsPlaying)
              => ArbiterRule(bpm, ppq, hostIsPlaying, 22050)]_vars

\* C17's case: with the override off (240 bpm left in the internal tempo) and the
\* host stopped but reporting 120 bpm, a half-second block moved the position on
\* by one beat on the internal clock.
StoppedHostTempoUsed ==
  /\ lastOp.op = "processBlock" /\ lastOp.exit = "scan"
  /\ ~useInternalClock /\ lastOp.useInternal
  /\ internalBpm = 240 /\ lastOp.effectiveBpm = 120
  /\ lastOp.lastPosition = 0 /\ lastOp.position = 1
  /\ internalPositionBeats = 1

(***************************************************************************)
(* The accumulator: one playable groove, played alone or as the only item  *)
(* of the timeline, started and stopped, in half-second blocks at 120 bpm  *)
(* with the host stopped or running and the preview override on or off.    *)
(***************************************************************************)
NextAdvance ==
  \/ ScanGrooves(TRUE)
  \/ StartPlayback(0, 1)
  \/ StopPlayback
  \/ composerItems = << >> /\ AddToComposer(0, 0, 0)
  \/ StartComposerPlayback
  \/ StopComposerPlayback
  \/ SetPreviewBPM(120)
  \/ UseDAWTiming
  \/ ProcessBlock(120, 0, FALSE, 22050)
  \/ \E ppq \in HostPositions : ProcessBlock(120, ppq, TRUE, 22050)

SpecAdvance == Init /\ [][NextAdvance]_vars

\* The anchor of the branch the block just taken went through, before the block.
BlockAnchor == IF lastOp'.branch = "single" THEN playbackStartPpq ELSE composerStartPpq

\* The length the block just taken wrapped at.
BlockLength ==
  IF lastOp'.branch = "single" THEN CurrentGroove.lengthInBeats
  ELSE getComposerLengthInBeats(composerItems)

\* C18: a block moves the accumulator on, by effectiveBpm/60 * numSamples /
\* sampleRate less the whole lengths it wrapped over, only when it runs on the
\* internal clock while playing or composerPlaying is set; any other block
\* leaves it as it is, or at zero when the block takes the anchor; and a block
\* with neither flag set emits nothing and leaves the accumulator, both anchors,
\* the loop flag and both flags unchanged.
AdvanceOnlyInternalActive ==
  [][lastOp'.op = "processBlock"
       => LET active == playing \/ composerPlaying
              beats == BeatsThisBlock(lastOp'.effectiveBpm, 22050, currentSampleRate)
          IN  /\ (lastOp'.useInternal /\ active /\ BlockAnchor >= 0)
                   => \E k \in 0..MaxInternalBeats :
                         internalPositionBeats'
                           = internalPositionBeats + beats - k * BlockLength
              /\ ~(lastOp'.useInternal /\ active)
                   => \/ internalPositionBeats' = internalPositionBeats
                      \/ active /\ BlockAnchor < 0 /\ internalPositionBeats' = 0
              /\ ~active
                   => /\ midiOut' = << >>
                      /\ UNCHANGED << internalPositionBeats, playbackStartPpq,
                                      composerStartPpq, looping, playing,
                                      composerPlaying >>]_vars

\* C18's case: the timeline was played on the internal clock up to beat 1, then
\* the host started and a block ran on the host's clock: the accumulator still
\* reads 1.
HostBlockKeptAccumulator ==
  /\ lastOp.op = "processBlock" /\ lastOp.branch = "composer" /\ lastOp.exit = "scan"
  /\ composerPlaying /\ ~lastOp.useInternal
  /\ internalPositionBeats = 1

(***************************************************************************)
(* The loop flag: the library is scanned once; one groove is played alone  *)
(* or as the only item of the timeline, in half-second blocks at 120 bpm   *)
(* on the internal clock or, once the override is dropped, on a running    *)
(* host's, while the loop flag is switched on and off.                     *)
(***************************************************************************)
NextLoopFlag ==
  \/ categories = << >> /\ ScanGrooves(TRUE)
  \/ StartPlayback(0, 1)
  \/ composerItems = << >> /\ AddToComposer(0, 0, 0)
  \/ StartComposerPlayback
  \/ \E b \in BOOLEAN : SetLooping(b)
  \/ UseDAWTiming
  \/ ProcessBlock(120, 0, FALSE, 22050)
  \/ \E ppq \in HostPositions : ProcessBlock(120, ppq, TRUE, 22050)

SpecLoopFlag == Init /\ [][NextLoopFlag]_vars

\* What the loop flag decides in a block whose branch has taken its anchor (and,
\* for a single groove, still finds the groove loaded): the
\* position the clock has reached is the accumulator plus the block's beats, or
\* the host position less the anchor; short of the length the block scans there;
\* at or past it the block wraps to the remainder and goes on when looping is
\* set, and clears its flag and emits nothing when it is not.
LoopRule(bpm, ppqPosition, hostIsPlaying, numSamples) ==
  LET internal == UseInternal(hostIsPlaying)
      beats == BeatsThisBlock(EffectiveBpm(bpm), numSamples, currentSampleRate)
      single == playing /\ ~composerPlaying
      length == IF single THEN CurrentGroove.lengthInBeats
                ELSE getComposerLengthInBeats(composerItems)
      anchor == IF single THEN playbackStartPpq ELSE composerStartPpq
      reached == IF internal THEN internalPositionBeats + beats
                 ELSE ppqPosition - anchor
      goesOn == IF single THEN playing' ELSE composerPlaying'
      found == single => (~IsNull(CurrentGroove) /\ CurrentGroove.isLoaded)
  IN  ((playing \/ composerPlaying) /\ found /\ anchor >= 0 /\ length > 0)
        => IF reached < length
           THEN goesOn /\ lastOp'.exit = "scan" /\ lastOp'.position = reached
           ELSE IF looping
           THEN goesOn /\ lastOp'.exit = "scan" /\ lastOp'.position = reached % length
           ELSE ~goesOn /\ lastOp'.exit = "end" /\ midiOut' = << >>

\* C19: setLooping changes the loop flag and nothing else (both mode flags, the
\* current groove, both anchors, the accumulator and the timeline stay), and in
\* every later block the value the flag then has decides between wrapping and
\* stopping at the end.
LoopFlagOnlyAndGoverns ==
  [][/\ lastOp'.op = "setLooping"
          => UNCHANGED << categories, playing, composerPlaying, currentCategoryIndex,
                          currentGrooveIndex, playbackStartPpq, composerStartPpq,
                          lastProcessedPpq, internalPositionBeats, internalBpm,
                          useInternalClock, composerItems, currentSampleRate >>
     /\ lastOp'.op = "processBlock"
          => \A ppq \in HostPositions, hostIsPlaying \in BOOLEAN :
               (/\ lastOp'.useInternal = UseInternal(hostIsPlaying)
                /\ ProcessBlock(120, ppq, hostIsPlaying, 22050))
                 => LoopRule(120, ppq, hostIsPlaying, 22050)]_vars

\* C19's case: the loop flag was cleared, and the block in which the internal
\* clock reached the waltz's length 3 stopped the playback where a looping one
\* would have wrapped.
StoppedAfterLoopOff ==
  /\ lastOp.op = "processBlock" /\ lastOp.branch = "single" /\ lastOp.exit = "end"
  /\ ~looping /\ ~playing
  /\ playbackStartPpq >= 0 /\ internalPositionBeats = 3

\* The messages of a sequence of events.
MessagesOf(evts) == [i \in DOMAIN evts |-> evts[i].message]

\* The events a block covering (lastPosition, groovePosition] comes to, in the
\* order in which the clock reaches them: when the block wraps, the events after
\* lastPosition up to the end first, then those from 0 up to groovePosition.
InClockOrder(evts, lastPosition, groovePosition) ==
  IF groovePosition >= lastPosition
  THEN SelectSeq(evts, LAMBDA e : /\ e.timeInBeats > lastPosition
                                  /\ e.timeInBeats <= groovePosition)
  ELSE SelectSeq(evts, LAMBDA e : e.timeInBeats > lastPosition)
         \o SelectSeq(evts, LAMBDA e : e.timeInBeats <= groovePosition)

\* C20: the events a single-groove block emits appear in the output in the order
\* in which the clock reaches them inside the block, so that in a block that
\* wraps the events of the tail (lastPosition, L] come before those of the head
\* [0, groovePosition] (stated for the blocks after the first of a run).
BlockEventsInClockOrder ==
  (/\ watch.mode = "loop" /\ watch.phase = "running" /\ watch.trav > 0
   /\ lastOp.op = "processBlock" /\ lastOp.branch = "single" /\ lastOp.exit = "scan")
    => midiOut = MessagesOf(InClockOrder(CurrentGroove.events, lastOp.lastPosition,
                                         lastOp.position))

(***************************************************************************)
(* The audio thread against the UI thread: the library is scanned once,    *)
(* the waltz is played alone or the march as the one item of the timeline, *)
(* and while the audio thread works through processBlock step by step (in  *)
(* half-second blocks at 120 bpm, host stopped or running) the UI thread   *)
(* calls the commands: those that take the lock wait for the block to      *)
(* return, the inline setters run at once.                                 *)
(***************************************************************************)
NextRace ==
  \/ categories = << >> /\ ScanGrooves(TRUE)
  \/ StartPlayback(0, 1)
  \/ composerItems = << >> /\ AddToComposer(0, 0, 0)
  \/ StartComposerPlayback
  \/ \E b \in BOOLEAN : SetLooping(b)
  \/ SetPreviewBPM(120)
  \/ UseDAWTiming
  \/ BlockBegin(120, 0, FALSE, 22050)
  \/ \E ppq \in HostPositions : BlockBegin(120, ppq, TRUE, 22050)
  \/ BlockWrap
  \/ BlockScan

SpecRace == Init /\ [][NextRace]_vars

\* C21: the commands read and write the shared state under the lock processBlock
\* holds from its first line to its return, so that between two steps of one
\* call of processBlock no command takes effect: while a call is under way,
\* every step is the call's own or leaves the mode flags, the loop flag, the
\* clock selection, the preview tempo, the accumulator, the anchors, the
\* timeline and the catalog as they are.
CommandsWaitForBlock ==
  [][audio.pc # "out"
       => \/ lastOp'.op = "processBlock"
          \/ UNCHANGED << playing, composerPlaying, looping, useInternalClock,
                          internalBpm, internalPositionBeats, playbackStartPpq,
                          composerStartPpq, composerItems, categories >>]_vars

\* A block whose two reads of the loop flag disagreed: on the internal clock it
\* wrapped from the end of the waltz to position 0 as a looping block does, and
\* then, the flag having been cleared in between, took its last position without
\* the wrap (0 instead of 2) and emitted nothing where a looping block emits the
\* events at 0 and 3 and a non-looping one stops the playback.
TornBlock ==
  /\ lastOp.op = "processBlock" /\ lastOp.branch = "single" /\ lastOp.exit = "scan"
  /\ lastOp.useInternal /\ ~looping /\ playing
  /\ lastProcessedPpq = 3 /\ lastOp.position = 0 /\ lastOp.lastPosition = 0
  /\ midiOut = << >>

(***************************************************************************)
(* AudioAnalyzer: file names.  A file name is a sequence of one-character  *)
(* strings.                                                                *)
(***************************************************************************)
UpperCase == << "A", "B", "C", "D", "E", "F", "G", "H", "I", "J", "K", "L", "M", "N", "O", "P", "Q", "R", "S", "T", "U", "V", "W", "X", "Y", "Z" >>

LowerCase == << "a", "b", "c", "d", "e", "f", "g", "h", "i", "j", "k", "l", "m", "n", "o", "p", "q", "r", "s", "t", "u", "v", "w", "x", "y", "z" >>

DigitChars == << "0", "1", "2", "3", "4", "5", "6", "7", "8", "9" >>

IsDigit(c) == \E i \in 1..10 : DigitChars[i] = c

DigitValue(c) == (CHOOSE i \in 1..10 : DigitChars[i] = c) - 1

\* juce::String::toLowerCase
ToLowerChar(c) == IF \E i \in 1..26 : UpperCase[i] = c THEN LowerCase[CHOOSE i \in 1..26 : UpperCase[i] = c] ELSE c

RECURSIVE ToLowerCase(_)
ToLowerCase(s) == IF s = << >> THEN << >> ELSE << ToLowerChar(Head(s)) >> \o ToLowerCase(Tail(s))

\* juce::String::lastIndexOf for a one-character needle: 0-based, -1 when absent.
LastIndexOf(s, c) == IF \E i \in 1..Len(s) : s[i] = c THEN (CHOOSE i \in 1..Len(s) : s[i] = c /\ \A j \in (i+1)..Len(s) : s[j] # c) - 1 ELSE -1

\* juce::String::indexOf: 0-based index of the first occurrence of the needle, -1 when absent.
StartsAt(s, needle, i) == i + Len(needle) - 1 <= Len(s) /\ SubSeq(s, i, i + Len(needle) - 1) = needle

IndexOf(s, needle) == IF \E i \in 1..Len(s) : StartsAt(s, needle, i) THEN (CHOOSE i \in 1..Len(s) : StartsAt(s, needle, i) /\ \A j \in 1..(i-1) : ~StartsAt(s, needle, j)) - 1 ELSE -1

\* juce::String::substring(start, end) and substring(start), 0-based, end exclusive.
Substring(s, start, end) == SubSeq(s, start + 1, end)

SubstringFrom(s, start) == SubSeq(s, start + 1, Len(s))

\* juce::String::replace of one character by another.
RECURSIVE ReplaceChar(_, _, _)
ReplaceChar(s, from, to) == IF s = << >> THEN << >> ELSE << IF Head(s) = from THEN to ELSE Head(s) >> \o ReplaceChar(Tail(s), from, to)

\* juce::String::trim: white space removed at both ends.
Trim(s) == IF \A i \in 1..Len(s) : s[i] = " " THEN << >> ELSE SubSeq(s, CHOOSE i \in 1..Len(s) : s[i] # " " /\ \A j \in 1..(i-1) : s[j] = " ", CHOOSE i \in 1..Len(s) : s[i] # " " /\ \A j \in (i+1)..Len(s) : s[j] = " ")

\* juce::String::getDoubleValue of a string of digits.
RECURSIVE GetDoubleValue(_)
GetDoubleValue(numberStr) == IF numberStr = << >> THEN 0 ELSE 10 * GetDoubleValue(SubSeq(numberStr, 1, Len(numberStr) - 1)) + DigitValue(numberStr[Len(numberStr)])

\* The loop of lines 175-186: the last run of digits of the text, read from its end;
\* characters that are not digits are passed over until a digit has been seen.
RECURSIVE LastNumber(_, _, _)
LastNumber(s, i, numberStr) ==
  IF i < 1 THEN numberStr
  ELSE IF IsDigit(s[i]) THEN LastNumber(s, i - 1, << s[i] >> \o numberStr)
  ELSE IF numberStr # << >> THEN numberStr
  ELSE LastNumber(s, i - 1, numberStr)

\* The loop of lines 205-216: the first run of digits of the text.
RECURSIVE FirstNumber(_, _, _)
FirstNumber(s, i, numberStr) ==
  IF i > Len(s) THEN numberStr
  ELSE IF IsDigit(s[i]) THEN FirstNumber(s, i + 1, Append(numberStr, s[i]))
  ELSE IF numberStr # << >> THEN numberStr
  ELSE FirstNumber(s, i + 1, numberStr)

\* juce::StringArray::addTokens(text, " ", ""): the pieces between spaces.
RECURSIVE AddTokens(_, _, _)
AddTokens(s, i, token) ==
  IF i > Len(s) THEN << token >>
  ELSE IF s[i] = " " THEN << token >> \o AddTokens(s, i + 1, << >>)
  ELSE AddTokens(s, i + 1, Append(token, s[i]))

IsNumericToken(token) == token # << >> /\ \A i \in 1..Len(token) : IsDigit(token[i])

\* Lines 153-164: lower case, extension removed, "_" and "-" turned into spaces.
NormalisedName(filename) ==
  LET Stem(lowerName, dotPos) == IF dotPos > 0 THEN Substring(lowerName, 0, dotPos) ELSE lowerName
      WithoutExtension(lowerName) == CHOOSE stem \in { Stem(lowerName, dotPos) : dotPos \in { LastIndexOf(lowerName, ".") } } : TRUE
      Spaced(stem) == ReplaceChar(ReplaceChar(stem, "_", " "), "-", " ")
  IN CHOOSE r \in { Spaced(stem) : stem \in { WithoutExtension(lowerName) : lowerName \in { ToLowerCase(filename) } } } : TRUE

\* Pattern 1 (lines 167-196): the number before "bpm", or 0 when this pattern gives none.
NumberBeforeBpm(lowerName) ==
  LET Accepted(bpmIndex, numberStr, bpm) == IF bpmIndex > 0 /\ numberStr # << >> /\ bpm >= 40 /\ bpm <= 250 THEN bpm ELSE 0
      FromNumber(bpmIndex, numberStr) == Accepted(bpmIndex, numberStr, GetDoubleValue(numberStr))
      FromText(bpmIndex, beforeBpm) == CHOOSE r \in { FromNumber(bpmIndex, numberStr) : numberStr \in { LastNumber(beforeBpm, Len(beforeBpm), << >>) } } : TRUE
      FromIndex(bpmIndex) == CHOOSE r \in { FromText(bpmIndex, beforeBpm) : beforeBpm \in { Trim(Substring(lowerName, 0, bpmIndex)) } } : TRUE
  IN CHOOSE r \in { FromIndex(bpmIndex) : bpmIndex \in { IndexOf(lowerName, << "b", "p", "m" >>) } } : TRUE

\* A faulty pattern 2 that, like pattern 1, wants text before "bpm".
NumberAfterBpmNotAtStart(lowerName) ==
  LET Accepted(bpmIndex, numberStr, bpm) == IF bpmIndex > 0 /\ bpmIndex + 3 < Len(lowerName) /\ numberStr # << >> /\ bpm >= 40 /\ bpm <= 250 THEN bpm ELSE 0
      FromNumber(bpmIndex, numberStr) == Accepted(bpmIndex, numberStr, GetDoubleValue(numberStr))
      FromText(bpmIndex, afterBpm) == CHOOSE r \in { FromNumber(bpmIndex, numberStr) : numberStr \in { FirstNumber(afterBpm, 1, << >>) } } : TRUE
      FromIndex(bpmIndex) == CHOOSE r \in { FromText(bpmIndex, afterBpm) : afterBpm \in { Trim(SubstringFrom(lowerName, bpmIndex + 3)) } } : TRUE
  IN CHOOSE r \in { FromIndex(bpmIndex) : bpmIndex \in { IndexOf(lowerName, << "b", "p", "m" >>) } } : TRUE

\* Pattern 2 (lines 199-226): the number after "bpm", or 0.
NumberAfterBpm(lowerName) ==
  LET Accepted(bpmIndex, numberStr, bpm) == IF bpmIndex >= 0 /\ bpmIndex + 3 < Len(lowerName) /\ numberStr # << >> /\ bpm >= 40 /\ bpm <= 250 THEN bpm ELSE 0
      FromNumber(bpmIndex, numberStr) == Accepted(bpmIndex, numberStr, GetDoubleValue(numberStr))
      FromText(bpmIndex, afterBpm) == CHOOSE r \in { FromNumber(bpmIndex, numberStr) : numberStr \in { FirstNumber(afterBpm, 1, << >>) } } : TRUE
      FromIndex(bpmIndex) == CHOOSE r \in { FromText(bpmIndex, afterBpm) : afterBpm \in { Trim(SubstringFrom(lowerName, bpmIndex + 3)) } } : TRUE
  IN CHOOSE r \in { FromIndex(bpmIndex) : bpmIndex \in { IndexOf(lowerName, << "b", "p", "m" >>) } } : TRUE

\* Pattern 3 (lines 230-255): the first all-digit token between 60 and 200, or 0.
StandaloneNumber(lowerName) ==
  LET Accepted(token) == IsNumericToken(token) /\ GetDoubleValue(token) >= 60 /\ GetDoubleValue(token) <= 200
      FirstAccepted(tokens) ==
        IF \E i \in 1..Len(tokens) : Accepted(tokens[i])
        THEN GetDoubleValue(tokens[CHOOSE i \in 1..Len(tokens) : Accepted(tokens[i]) /\ \A j \in 1..(i-1) : ~Accepted(tokens[j])])
        ELSE 0
  IN CHOOSE r \in { FirstAccepted(tokens) : tokens \in { IF lowerName = << >> THEN << >> ELSE AddTokens(lowerName, 1, << >>) } } : TRUE

\* AudioAnalyzer::extractBPMFromFilename: 0 stands for "no BPM found in filename".
extractBPMFromFilename(filename) ==
  LET FromName(lowerName) ==
        CHOOSE bpm \in { IF before > 0 THEN before ELSE IF after > 0 THEN after ELSE standalone :
                           before \in { NumberBeforeBpm(lowerName) }, after \in { NumberAfterBpm(lowerName) },
                           standalone \in { StandaloneNumber(lowerName) } } : TRUE
  IN CHOOSE bpm \in { FromName(lowerName) : lowerName \in { NormalisedName(filename) } } : TRUE

(***************************************************************************)
(* AudioAnalyzer: tempo, onsets, analysis.  The clip is held as what the   *)
(* analysis reads of it: its sample count, the RMS energy of each analysis *)
(* window (whole numbers), and the answer the MiniBPM library gives for    *)
(* its samples.  Times are whole milliseconds, beat times thousandths.     *)
(***************************************************************************)
hopSize == 512

windowSize == 1024

\* Line 375: onsets must be more than 0.08 s apart.
MinOnsetGapMs == 80

\* Lines 325-335: one energy value per window start i = 0, hopSize, ... below
\* numSamples - windowSize.
NumWindows(numSamples) == IF numSamples - windowSize <= 0 THEN 0 ELSE (numSamples - windowSize + hopSize - 1) \div hopSize

\* A sample buffer that has exactly the given energy envelope.
AudioOf(energy, tempo, candidates) == [numSamples |-> windowSize + hopSize * Len(energy), energy |-> energy, tempo |-> tempo, candidates |-> candidates]

\* Lines 341-345: the positive part of the energy rise from window to window.
EnergyDiff(energyEnvelope) == [i \in 1..(Len(energyEnvelope) - 1) |-> Max2(0, energyEnvelope[i + 1] - energyEnvelope[i])]

RECURSIVE SumSeq(_)
SumSeq(s) == IF s = << >> THEN 0 ELSE CHOOSE r \in { v[1] + SumSeq(Tail(v)) : v \in { s } } : TRUE

MaxSeq(s) == IF s = << >> THEN 0 ELSE CHOOSE x \in { s[i] : i \in 1..Len(s) } : \A j \in 1..Len(s) : s[j] <= x

\* Line 358 and the first test of line 367: the value exceeds
\* max(1.5 * mean, 0.1 * max), stated without fractions.
AboveThreshold(d, energyDiff) == 2 * Len(energyDiff) * d > 3 * SumSeq(energyDiff) /\ 10 * d > MaxSeq(energyDiff)

\* Line 372: the time of the peak at (0-based) index i of the difference.
FrameTime(i, sampleRate) == ((i + 1) * hopSize * 1000) \div sampleRate

\* A faulty peak picking without the minimum spacing.
RECURSIVE PickPeaksUnspaced(_, _, _, _)
PickPeaksUnspaced(energyDiff, j, sampleRate, onsets) ==
  IF j > Len(energyDiff) - 1 THEN onsets
  ELSE IF /\ AboveThreshold(energyDiff[j], energyDiff)
          /\ energyDiff[j] >= energyDiff[j - 1]
          /\ energyDiff[j] >= energyDiff[j + 1]
       THEN PickPeaksUnspaced(energyDiff, j + 1, sampleRate, Append(onsets, FrameTime(j - 1, sampleRate)))
       ELSE PickPeaksUnspaced(energyDiff, j + 1, sampleRate, onsets)

\* Lines 365-380, from (1-based) position j of the difference on.
RECURSIVE PickPeaks(_, _, _, _)
PickPeaks(energyDiff, j, sampleRate, onsets) ==
  IF j > Len(energyDiff) - 1 THEN onsets
  ELSE IF /\ AboveThreshold(energyDiff[j], energyDiff)
          /\ energyDiff[j] >= energyDiff[j - 1]
          /\ energyDiff[j] >= energyDiff[j + 1]
          /\ \/ onsets = << >>
             \/ FrameTime(j - 1, sampleRate) - onsets[Len(onsets)] > MinOnsetGapMs
       THEN PickPeaks(energyDiff, j + 1, sampleRate, Append(onsets, FrameTime(j - 1, sampleRate)))
       ELSE PickPeaks(energyDiff, j + 1, sampleRate, onsets)

\* AudioAnalyzer::detectOnsets: onset times in milliseconds.
detectOnsets(a) ==
  IF ~a.audioLoaded THEN << >>
  ELSE IF Len(a.audioBuffer.energy) < 3 THEN << >>
  ELSE PickPeaks(EnergyDiff(a.audioBuffer.energy), 2, a.audioSampleRate, << >>)

\* min(candidates.size(), 3) leading candidates.
FirstThree(candidates) == SubSeq(candidates, 1, Min2(Len(candidates), 3))

\* AudioAnalyzer::detectBPM: the estimate, and the pattern with the candidates and
\* the confidence stored in it.
detectBPM(a) ==
  LET bpm == IF a.audioLoaded THEN a.audioBuffer.tempo ELSE 0
      candidates == a.audioBuffer.candidates
      cleared == [a.detectedPattern EXCEPT !.alternativeBpms = << >>]
  IN IF ~a.audioLoaded THEN [bpm |-> 0, pattern |-> a.detectedPattern]
     ELSE IF candidates # << >> /\ bpm > 0
     THEN [bpm |-> bpm,
           pattern |-> [cleared EXCEPT !.alternativeBpms = FirstThree(candidates),
                                       !.confidence = IF Len(candidates) >= 2 /\ candidates[2] > 0 THEN 80 ELSE 90]]
     ELSE [bpm |-> bpm, pattern |-> cleared]

\* Line 129: a time in milliseconds as thousandths of a beat at the tempo.
BeatTime(ms, bpm) == (ms * bpm) \div 60

\* AudioAnalyzer::analyzeAudio: the analyzer after the call; lastResult holds the
\* call's return value, and what was found on the way.
analyzeAudio(a) ==
  LET Analysed(named, detected, onsets) ==
        LET bpm == IF named > 0 THEN named ELSE detected.bpm
            pattern == IF named > 0 THEN [a.detectedPattern EXCEPT !.confidence = 100] ELSE detected.pattern
        IN IF bpm <= 0
           THEN [a EXCEPT !.analysisProgress = 10, !.detectedPattern = pattern,
                          !.lastResult = [op |-> "analyzeAudio", ok |-> FALSE, bpm |-> bpm, onsets |-> -1]]
           ELSE [a EXCEPT !.analysisProgress = 100, !.analysisComplete = TRUE,
                          !.detectedPattern = [pattern EXCEPT !.bpm = bpm,
                                                 !.onsetTimesBeats = [i \in 1..Len(onsets) |-> BeatTime(onsets[i], bpm)],
                                                 !.lengthInBeats = BeatTime(a.audioLengthSeconds, bpm),
                                                 !.beatsPerBar = 4],
                          !.lastResult = [op |-> "analyzeAudio", ok |-> TRUE, bpm |-> bpm, onsets |-> Len(onsets)]]
  IN IF ~a.audioLoaded
     THEN [a EXCEPT !.lastResult = [op |-> "analyzeAudio", ok |-> FALSE, bpm |-> 0, onsets |-> -1]]
     ELSE CHOOSE r \in { Analysed(named, detected, onsets) : named \in { extractBPMFromFilename(a.loadedFileName) },
                           detected \in { detectBPM(a) }, onsets \in { detectOnsets(a) } } : TRUE

\* AudioAnalyzer::clear
clear(a) ==
  [a EXCEPT !.audioBuffer = NoAudio, !.audioLoaded = FALSE, !.analysisComplete = FALSE, !.analysisProgress = 0,
            !.loadedFileName = << >>, !.audioLengthSeconds = 0, !.detectedPattern = RhythmPattern]

\* AudioAnalyzer::loadAudioFile: the analyzer after the call.
loadAudioFile(a, file) ==
  LET c == clear(a)
  IN IF ~file.exists \/ ~file.readable
     THEN [c EXCEPT !.lastResult = [op |-> "loadAudioFile", ok |-> FALSE, bpm |-> 0, onsets |-> -1]]
     ELSE IF file.audio.numSamples = 0
     THEN [c EXCEPT !.audioSampleRate = file.sampleRate,
                    !.lastResult = [op |-> "loadAudioFile", ok |-> FALSE, bpm |-> 0, onsets |-> -1]]
     ELSE [c EXCEPT !.audioSampleRate = file.sampleRate, !.audioBuffer = file.audio,
                    !.audioLengthSeconds = (file.audio.numSamples * 1000) \div file.sampleRate,
                    !.loadedFileName = file.name, !.audioLoaded = TRUE,
                    !.lastResult = [op |-> "loadAudioFile", ok |-> TRUE, bpm |-> 0, onsets |-> -1]]

managerVars == << categories, playing, looping, currentCategoryIndex, currentGrooveIndex, playbackStartPpq, lastProcessedPpq, internalBpm, internalPositionBeats, useInternalClock, composerItems, composerPlaying, composerStartPpq, currentSampleRate, midiOut, lastOp, watch >>

\* The panel's calls on its analyzer, outside an analysis run.
LoadAudioFile(file) ==
  /\ analyzer' = loadAudioFile(analyzer, file)
  /\ UNCHANGED << managerVars, audio, panel, probe >>

AnalyzeAudio ==
  /\ analyzer' = analyzeAudio(analyzer)
  /\ UNCHANGED << managerVars, audio, panel, probe >>

ClearAnalyzer ==
  /\ analyzer' = [clear(analyzer) EXCEPT !.lastResult = [op |-> "clear", ok |-> TRUE, bpm |-> 0, onsets |-> -1]]
  /\ UNCHANGED << managerVars, audio, panel, probe >>

(***************************************************************************)
(* Analyzer inputs: file names, signals, files.                            *)
(***************************************************************************)
\* "groove_120bpm.wav", "beat 85 bpm.mp3", "bpm140_loop.wav", "track7.wav"
Groove120bpmWav == << "g", "r", "o", "o", "v", "e", "_", "1", "2", "0", "b", "p", "m", ".", "w", "a", "v" >>

Beat85BpmMp3 == << "b", "e", "a", "t", " ", "8", "5", " ", "b", "p", "m", ".", "m", "p", "3" >>

Bpm140LoopWav == << "b", "p", "m", "1", "4", "0", "_", "l", "o", "o", "p", ".", "w", "a", "v" >>

Track7Wav == << "t", "r", "a", "c", "k", "7", ".", "w", "a", "v" >>

\* Names with the number before or after "bpm", with each separator or none, in
\* either letter case, with and without an extension.
TempoTexts == { << "4", "0" >>, << "9", "5" >>, << "2", "5", "0" >> }

Separators == { << >>, << "_" >>, << "-" >>, << " " >> }

Markers == { << "b", "p", "m" >>, << "B", "P", "M" >> }

Extensions == { << >>, << ".", "w", "a", "v" >> }

\* Names with no tempo token: digits glued to letters, no "bpm".
PlainNames == { Track7Wav, << "t", "a", "k", "e", "1", "2", "0", ".", "w", "a", "v" >>, << "d", "r", "u", "m", "s" >> }

ExampleNames == { Groove120bpmWav, Beat85BpmMp3, Bpm140LoopWav, Track7Wav }

\* Energy envelopes: silence, a steady tone, two hits, two hits one window apart,
\* a clip of two windows.
Envelopes == { << 0, 0, 0, 0, 0 >>, << 5, 5, 5, 5, 5 >>, << 0, 0, 9, 9, 0, 0, 9, 0 >>, << 0, 0, 9, 0, 9, 0, 0 >>, << 0, 9 >> }

\* What MiniBPM answers: nothing, one candidate, several, or candidates without a tempo.
Estimates == { << 0, << >> >>, << 90, << 90 >> >>, << 120, << 120, 60, 240, 80 >> >>, << 0, << 100 >> >> }

Signals == { AudioOf(e, est[1], est[2]) : e \in Envelopes, est \in Estimates }

\* The files' sample rate: one hop is 50 ms.
FileSampleRate == 10240

AudioFile(name, buffer) == [name |-> name, exists |-> TRUE, readable |-> TRUE, sampleRate |-> FileSampleRate, audio |-> buffer]

AudioFiles ==
  { AudioFile(n, s) : n \in ExampleNames \cup PlainNames, s \in Signals }
    \cup { [AudioFile(Track7Wav, NoAudio) EXCEPT !.exists = FALSE],
           [AudioFile(Track7Wav, NoAudio) EXCEPT !.readable = FALSE],
           AudioFile(Track7Wav, NoAudio) }

NextAnalyze ==
  \/ \E file \in AudioFiles : LoadAudioFile(file)
  \/ AnalyzeAudio
  \/ ClearAnalyzer

SpecAnalyze == Init /\ [][NextAnalyze]_vars

\* C22: an analysis that found no tempo, or no onsets, returns failure, and a failed
\* analysis leaves the stored result as it was: tempo, confidence, alternative
\* tempos, onset list, length and the analysis-complete flag.
FailedAnalysisAppliesNothing ==
  [][analyzer'.lastResult.op = "analyzeAudio" /\ analyzer' # analyzer
       => /\ (analyzer'.lastResult.bpm <= 0 \/ analyzer'.lastResult.onsets <= 0) => ~analyzer'.lastResult.ok
          /\ ~analyzer'.lastResult.ok => /\ analyzer'.detectedPattern = analyzer.detectedPattern
                                        /\ analyzer'.analysisComplete = analyzer.analysisComplete]_vars

\* A clip with a tempo in its name and a steady signal has been analysed: no onset
\* was found, and the analysis is complete and reported success.
AnalysedWithoutOnsets ==
  /\ analyzer.lastResult = [op |-> "analyzeAudio", ok |-> TRUE, bpm |-> 120, onsets |-> 0]
  /\ analyzer.loadedFileName = Groove120bpmWav
  /\ analyzer.analysisComplete
  /\ analyzer.detectedPattern.onsetTimesBeats = << >>

(***************************************************************************)
(* AudioAnalyzer::calculatePatternSimilarity.  Scores are whole hundredths *)
(* of a point (0..10000 for the code's 0..100).                            *)
(***************************************************************************)
barLength == 4

numSlots == 16

\* Lines 468-470 and 479-481: the 16th-note slot of a beat time (thousandths).
Slot(beatTime) ==
  LET normalizedTime == beatTime % (barLength * 1000)
      slot == (normalizedTime * numSlots) \div (barLength * 1000)
  IN Max2(0, Min2(slot, numSlots - 1))

\* A faulty histogram that counts bar positions from the first time of the list.
HitsFromFirst(times) == CHOOSE r \in { [i \in 1..numSlots |-> Cardinality({ k \in 1..Len(t) : Slot(t[k] - t[1]) = i - 1 })] : t \in { times } } : TRUE

\* The hit counts of a list of beat times, slot 0 first.
Hits(times) == CHOOSE r \in { [i \in 1..numSlots |-> Cardinality({ k \in 1..Len(t) : Slot(t[k]) = i - 1 })] : t \in { times } } : TRUE

IsNoteOnEvent(evt) == evt.message.on

\* The beat times of the groove's note-on events, in thousandths.
RECURSIVE NoteOnTimesOf(_)
NoteOnTimesOf(evts) ==
  IF evts = << >> THEN << >>
  ELSE (IF IsNoteOnEvent(Head(evts)) THEN << Head(evts).timeInBeats * 1000 >> ELSE << >>) \o NoteOnTimesOf(Tail(evts))

NoteOnTimes(groove) == NoteOnTimesOf(groove.events)

ISqrt(x) == CHOOSE r \in 0..100 : r * r <= x /\ (r = 100 \/ (r + 1) * (r + 1) > x)

\* Lines 517-539: slots where either side has a hit, and those of them matched by
\* the other side in the same or a neighbouring slot.
HitNear(hits, i) ==
  \/ hits[i] > 0
  \/ i > 1 /\ hits[i - 1] > 0
  \/ i < numSlots /\ hits[i + 1] > 0

TotalPositions(audioHits, grooveHits) == Cardinality({ i \in 1..numSlots : audioHits[i] > 0 \/ grooveHits[i] > 0 })

PositionMatches(audioHits, grooveHits) ==
  Cardinality({ i \in 1..numSlots : \/ audioHits[i] > 0 /\ HitNear(grooveHits, i)
                                    \/ grooveHits[i] > 0 /\ HitNear(audioHits, i) })

\* A faulty similarity without the early return, which takes two empty histograms
\* for a perfect cosine match.
SimilarityEmptyIsPerfect(pattern, groove) ==
  LET Scored(audioHits, grooveHits, maxAudio, maxGroove, dotProduct, normA, normB, totalPositions) ==
        IF normA = 0 \/ normB = 0
        THEN [score |-> 6000, divisors |-> << maxAudio, maxGroove >>]
        ELSE [score |-> 60 * ISqrt((dotProduct * dotProduct * 10000) \div (normA * normB))
                          + (IF totalPositions > 0 THEN (4000 * PositionMatches(audioHits, grooveHits)) \div totalPositions ELSE 0),
              divisors |-> << maxAudio, maxGroove, normA * normB >> \o (IF totalPositions > 0 THEN << totalPositions >> ELSE << >>)]
  IN CHOOSE r \in { Scored(h[1], h[2], Max2(1, MaxSeq(h[1])), Max2(1, MaxSeq(h[2])),
                              SumSeq([i \in 1..numSlots |-> h[1][i] * h[2][i]]),
                              SumSeq([i \in 1..numSlots |-> h[1][i] * h[1][i]]),
                              SumSeq([i \in 1..numSlots |-> h[2][i] * h[2][i]]),
                              TotalPositions(h[1], h[2])) :
                         h \in { << Hits(pattern.onsetTimesBeats), Hits(NoteOnTimes(groove)) >> } } : TRUE

\* calculatePatternSimilarity with the divisors it used on the way.  The cosine of
\* the normalised histograms is that of the raw counts: the factors 1/maxAudio and
\* 1/maxGroove cancel.  normA < 0.0001 is normA * 10000 < maxAudio^2 in raw counts.
Similarity(pattern, groove) ==
  LET Scored(audioHits, grooveHits, maxAudio, maxGroove, dotProduct, normA, normB, totalPositions) ==
        IF normA * 10000 < maxAudio * maxAudio \/ normB * 10000 < maxGroove * maxGroove
        THEN [score |-> 0, divisors |-> << maxAudio, maxGroove >>]
        ELSE [score |-> 60 * ISqrt((dotProduct * dotProduct * 10000) \div (normA * normB))
                          + (IF totalPositions > 0 THEN (4000 * PositionMatches(audioHits, grooveHits)) \div totalPositions ELSE 0),
              divisors |-> << maxAudio, maxGroove, normA * normB >> \o (IF totalPositions > 0 THEN << totalPositions >> ELSE << >>)]
      Measured(h) ==
        CHOOSE r \in { Scored(h[1], h[2], m[1], m[2], m[3], m[4], m[5], m[6]) :
                         m \in { << Max2(1, MaxSeq(h[1])), Max2(1, MaxSeq(h[2])),
                                    SumSeq([i \in 1..numSlots |-> h[1][i] * h[2][i]]),
                                    SumSeq([i \in 1..numSlots |-> h[1][i] * h[1][i]]),
                                    SumSeq([i \in 1..numSlots |-> h[2][i] * h[2][i]]),
                                    TotalPositions(h[1], h[2]) >> } } : TRUE
      Compared(times) ==
        IF pattern.onsetTimesBeats = << >> \/ times = << >>
        THEN [score |-> 0, divisors |-> << >>]
        ELSE CHOOSE r \in { Measured(h) : h \in { << Hits(pattern.onsetTimesBeats), Hits(times) >> } } : TRUE
  IN CHOOSE r \in { Compared(times) : times \in { NoteOnTimes(groove) } } : TRUE

calculatePatternSimilarity(pattern, groove) == Similarity(pattern, groove).score

(***************************************************************************)
(* calculatePatternSimilarity on its own: the inputs are drawn at the      *)
(* start, one step applies the function to the onset list as given and to  *)
(* the same onsets in another order.                                       *)
(***************************************************************************)
MaxOnsets == 3

\* Beat times in thousandths: on and off the 16th-note grid, in the first bar and later.
OnsetBeats == { 0, 250, 1100, 3900, 6500 }

OnsetLists == UNION { [1..n -> OnsetBeats] : n \in 0..MaxOnsets }

\* Every list with the same elements, each as many times.
Reorderings(s) == UNION { { [i \in 1..Len(v) |-> v[p[i]]] : p \in { q \in [1..Len(v) -> 1..Len(v)] : \A i, j \in 1..Len(v) : i # j => q[i] # q[j] } } : v \in { s } }

\* Loaded grooves: the two of the library, one whose file holds note-offs only, and
\* one whose file holds no notes.
LoadedGrooves ==
  { parseMidiFile(NewGroove(1, 1)).groove, parseMidiFile(NewGroove(1, 2)).groove,
    [parseMidiFile(NewGroove(1, 2)).groove EXCEPT !.events = SelectSeq(@, LAMBDA evt : ~evt.message.on)],
    [parseMidiFile(NewGroove(1, 2)).groove EXCEPT !.events = << >>] }

InitSimilarity ==
  /\ InitManager /\ InitAudio /\ InitAnalyzer /\ InitPanel
  /\ watch = [mode |-> "off"]
  /\ \E onsets \in OnsetLists : \E groove \in LoadedGrooves : \E reordered \in Reorderings(onsets) :
       probe = [fn |-> "calculatePatternSimilarity", applied |-> FALSE, onsets |-> onsets, reordered |-> reordered,
                groove |-> groove, result |-> [score |-> 0, divisors |-> << >>],
                reorderedResult |-> [score |-> 0, divisors |-> << >>]]

CalculatePatternSimilarity ==
  /\ probe.fn = "calculatePatternSimilarity" /\ ~probe.applied
  /\ probe' = [probe EXCEPT !.applied = TRUE,
                            !.result = Similarity([RhythmPattern EXCEPT !.onsetTimesBeats = probe.onsets], probe.groove),
                            !.reorderedResult = Similarity([RhythmPattern EXCEPT !.onsetTimesBeats = probe.reordered], probe.groove)]
  /\ UNCHANGED << managerVars, audio, analyzer, panel >>

NextSimilarity == CalculatePatternSimilarity

SpecSimilarity == InitSimilarity /\ [][NextSimilarity]_vars

\* C24: an empty onset list against any pattern, and any onsets against a pattern
\* with no note-start, score exactly 0; and no call divides by zero.
DegenerateScoresZero ==
  probe.fn = "calculatePatternSimilarity" /\ probe.applied
    => /\ (probe.onsets = << >> \/ NoteOnTimes(probe.groove) = << >>) => probe.result.score = 0
       /\ \A i \in 1..Len(probe.result.divisors) : probe.result.divisors[i] # 0

\* Onsets were scored against a loaded pattern that has no note-start.
ScoredAgainstNoNotes ==
  /\ probe.fn = "calculatePatternSimilarity" /\ probe.applied
  /\ Len(probe.onsets) = 2 /\ probe.groove.events # << >> /\ NoteOnTimes(probe.groove) = << >>
  /\ probe.result.score = 0

\* C25: the score depends only on the multiset of onset times: the same onsets in
\* any other order score the same against the same pattern.
ScoreIgnoresOnsetOrder ==
  probe.fn = "calculatePatternSimilarity" /\ probe.applied => probe.reorderedResult.score = probe.result.score

\* Three different onsets were scored in two different orders, with a positive score.
ScoredInTwoOrders ==
  /\ probe.fn = "calculatePatternSimilarity" /\ probe.applied
  /\ Len(probe.onsets) = 3 /\ probe.reordered # probe.onsets
  /\ probe.onsets[1] # probe.onsets[2] /\ probe.onsets[2] # probe.onsets[3]
  /\ probe.result.score > 0 /\ probe.result.score < 10000

(***************************************************************************)
(* AudioAnalyzer::findMatchingGrooves                                      *)
(***************************************************************************)
\* The (category, groove) indices of the catalog in the order of the two loops.
RECURSIVE CatalogRefs(_, _)
CatalogRefs(cats, c) ==
  IF c >= Len(cats) THEN << >>
  ELSE [g \in 1..Len(cats[c + 1].grooves) |-> << c, g - 1 >>] \o CatalogRefs(cats, c + 1)

\* Line 407 over the whole loop: every groove of the catalog put through loadGroove.
RECURSIVE LoadEvery(_, _)
LoadEvery(cats, refs) ==
  IF refs = << >> THEN cats
  ELSE CHOOSE r \in { LoadEvery(next, Tail(refs)) : next \in { loadGroove(cats, Head(refs)[1], Head(refs)[2]).cats } } : TRUE

\* Lines 409-425: the match of one groove.
GrooveMatch(pattern, cats, ref) ==
  [categoryIndex |-> ref[1], grooveIndex |-> ref[2], categoryName |-> cats[ref[1] + 1].name,
   grooveName |-> getGroove(cats, ref[1], ref[2]).name,
   matchScore |-> calculatePatternSimilarity(pattern, getGroove(cats, ref[1], ref[2])), bpmDifference |-> 0]

\* Lines 400-427: a match for every groove that is loaded after loadGroove, in catalog order.
RECURSIVE ScoreEvery(_, _, _)
ScoreEvery(pattern, cats, refs) ==
  IF refs = << >> THEN << >>
  ELSE (IF getGroove(cats, Head(refs)[1], Head(refs)[2]).isLoaded THEN << GrooveMatch(pattern, cats, Head(refs)) >> ELSE << >>)
       \o ScoreEvery(pattern, cats, Tail(refs))

\* A faulty sort: lowest score first.
SortedByScoreAscending(matches) == UNION { { s \in Reorderings(m) : \A i \in 1..(Len(s) - 1) : s[i].matchScore <= s[i + 1].matchScore } : m \in { matches } }

\* Lines 430-433: std::sort with a.matchScore > b.matchScore.  The sort is not
\* stable: matches of equal score come out in any order.
SortedByScore(matches) == UNION { { s \in Reorderings(m) : \A i \in 1..(Len(s) - 1) : s[i].matchScore >= s[i + 1].matchScore } : m \in { matches } }

\* Lines 436-439.
TopResults(matches, maxResults) == IF Len(matches) > maxResults THEN SubSeq(matches, 1, maxResults) ELSE matches

\* findMatchingGrooves: the results it can return, each with the catalog it leaves.
findMatchingGrooves(a, cats, maxResults) ==
  LET Results(loaded, refs) == { [matches |-> TopResults(s, maxResults), cats |-> loaded] : s \in SortedByScore(ScoreEvery(a.detectedPattern, loaded, refs)) }
      Loaded(refs) == UNION { Results(loaded, refs) : loaded \in { LoadEvery(cats, refs) } }
  IN IF ~a.analysisComplete THEN { [matches |-> << >>, cats |-> cats] }
     ELSE UNION { Loaded(refs) : refs \in { CatalogRefs(cats, 0) } }

\* The result sizes asked for: the panel asks for 15.
MaxResultsValues == { 0, 1, 2, 15 }

FindMatchingGrooves(maxResults) ==
  \E r \in findMatchingGrooves(analyzer, categories, maxResults) :
  /\ categories' = r.cats
  /\ lastOp' = [op |-> "findMatchingGrooves", maxResults |-> maxResults, matches |-> r.matches,
                analysisComplete |-> analyzer.analysisComplete, pattern |-> analyzer.detectedPattern]
  /\ midiOut' = << >>
  /\ WatchCommand
  /\ UNCHANGED << singleVars, looping, clockVars, composerVars >>
  /\ ScopedLock
  /\ UNCHANGED restVars

\* Files for the matcher: each example name with each signal that has a tempo answer.
MatchFiles == { AudioFile(n, AudioOf(e, 90, << 90 >>)) : n \in ExampleNames, e \in Envelopes }

NextMatch ==
  \/ categories = << >> /\ ScanGrooves(TRUE)
  \/ \E ref \in LoadRefs : LoadGroove(ref[1], ref[2])
  \/ \E file \in MatchFiles : LoadAudioFile(file)
  \/ AnalyzeAudio
  \/ \E maxResults \in MaxResultsValues : FindMatchingGrooves(maxResults)

SpecMatch == Init /\ [][NextMatch]_vars

\* The grooves of the catalog that are loaded.
LoadedRefs(cats) == { << c, g >> \in (0..2) \X (0..2) : ValidGroove(cats, c, g) /\ getGroove(cats, c, g).isLoaded }

\* C26: a matching pass returns at most maxResults matches, in order of
\* non-increasing score, each a different loaded pattern of the library with its
\* own score, and no loaded pattern left out scores higher than one returned;
\* a pass before any completed analysis returns the empty list.
MatchesAreTheBest ==
  lastOp.op = "findMatchingGrooves"
    => LET ms == lastOp.matches
           RefOf(i) == << ms[i].categoryIndex, ms[i].grooveIndex >>
       IN /\ Len(ms) <= lastOp.maxResults
          /\ \A i \in 1..(Len(ms) - 1) : ms[i].matchScore >= ms[i + 1].matchScore
          /\ \A i \in 1..Len(ms) : /\ RefOf(i) \in LoadedRefs(categories)
                                   /\ ms[i].matchScore = calculatePatternSimilarity(lastOp.pattern, getGroove(categories, RefOf(i)[1], RefOf(i)[2]))
          /\ \A i, j \in 1..Len(ms) : i # j => RefOf(i) # RefOf(j)
          /\ \A ref \in LoadedRefs(categories) :
               (\A i \in 1..Len(ms) : RefOf(i) # ref)
                 => \A i \in 1..Len(ms) : ms[i].matchScore >= calculatePatternSimilarity(lastOp.pattern, getGroove(categories, ref[1], ref[2]))
          /\ ~lastOp.analysisComplete => ms = << >>

\* A pass for two results over three loaded patterns returned the two best and
\* left out the third, which scores lower, but not 0.
ReturnedTopTwo ==
  /\ lastOp.op = "findMatchingGrooves" /\ lastOp.maxResults = 2
  /\ Len(lastOp.matches) = 2
  /\ Cardinality(LoadedRefs(categories)) = 3
  /\ \E ref \in LoadedRefs(categories) :
       /\ calculatePatternSimilarity(lastOp.pattern, getGroove(categories, ref[1], ref[2])) < lastOp.matches[2].matchScore
       /\ calculatePatternSimilarity(lastOp.pattern, getGroove(categories, ref[1], ref[2])) > 0

(***************************************************************************)
(* extractBPMFromFilename on its own, next to an analyzer that loads and   *)
(* analyses files with the example names.                                  *)
(***************************************************************************)
\* File names with the tempo they carry (0: none).
NamedTempos ==
  { [filename |-> << "l", "o", "o", "p", "_" >> \o n \o sep \o m \o e, expected |-> GetDoubleValue(n)] : n \in TempoTexts, sep \in Separators, m \in Markers, e \in Extensions }
    \cup { [filename |-> m \o sep \o n \o << "_", "x" >> \o e, expected |-> GetDoubleValue(n)] : n \in TempoTexts, sep \in Separators, m \in Markers, e \in Extensions }
    \cup { [filename |-> n, expected |-> 0] : n \in PlainNames }
    \cup { [filename |-> Groove120bpmWav, expected |-> 120], [filename |-> Beat85BpmMp3, expected |-> 85],
           [filename |-> Bpm140LoopWav, expected |-> 140] }

InitFilename ==
  /\ InitManager /\ InitAudio /\ InitAnalyzer /\ InitPanel
  /\ watch = [mode |-> "off"]
  /\ \E input \in NamedTempos :
       probe = [fn |-> "extractBPMFromFilename", applied |-> FALSE, filename |-> input.filename,
                expected |-> input.expected, result |-> 0]

ExtractBPMFromFilename ==
  /\ probe.fn = "extractBPMFromFilename" /\ ~probe.applied
  /\ probe' = [probe EXCEPT !.applied = TRUE, !.result = extractBPMFromFilename(probe.filename)]
  /\ UNCHANGED << managerVars, audio, analyzer, panel >>

\* Files with the example names, with a signal MiniBPM finds a tempo in or not.
ExampleFiles == { AudioFile(n, AudioOf(<< 0, 0, 9, 9, 0, 0, 9, 0 >>, est[1], est[2])) : n \in ExampleNames, est \in Estimates }

NextFilename ==
  \/ ExtractBPMFromFilename
  \/ \E file \in ExampleFiles : LoadAudioFile(file)
  \/ AnalyzeAudio

SpecFilename == InitFilename /\ [][NextFilename]_vars

\* C27: the extractor returns the number next to "bpm", before or after it and across
\* separators: 120 for "groove_120bpm.wav", 85 for "beat 85 bpm.mp3", 140 for
\* "bpm140_loop.wav"; a name without a tempo token such as "track7.wav" gives no
\* match, and the analysis then takes the tempo of the signal analysis.
FilenameTempoExamples ==
  /\ probe.fn = "extractBPMFromFilename" /\ probe.applied
       => /\ probe.result = probe.expected
          /\ probe.filename = Groove120bpmWav => probe.result = 120
          /\ probe.filename = Beat85BpmMp3 => probe.result = 85
          /\ probe.filename = Bpm140LoopWav => probe.result = 140
          /\ probe.filename = Track7Wav => probe.result = 0
  /\ analyzer.lastResult.op = "analyzeAudio" /\ analyzer.audioLoaded
       => /\ analyzer.loadedFileName = Track7Wav
               => /\ analyzer.lastResult.bpm = analyzer.audioBuffer.tempo
                  /\ analyzer.lastResult.ok = (analyzer.audioBuffer.tempo > 0)
                  /\ analyzer.detectedPattern.confidence # 100
          /\ analyzer.loadedFileName = Bpm140LoopWav
               => analyzer.lastResult.ok /\ analyzer.detectedPattern.bpm = 140 /\ analyzer.detectedPattern.confidence = 100

\* "bpm140_loop.wav" gave 140, and "track7.wav" was analysed with the tempo 90
\* that the signal analysis found.
MarkerFirstAndFallback ==
  /\ probe.fn = "extractBPMFromFilename" /\ probe.applied
  /\ probe.filename = Bpm140LoopWav /\ probe.result = 140
  /\ analyzer.lastResult.op = "analyzeAudio" /\ analyzer.lastResult.ok
  /\ analyzer.loadedFileName = Track7Wav /\ analyzer.detectedPattern.bpm = 90

(***************************************************************************)
(* BandmatePanel: analysis on a worker thread, completion on the message   *)
(* thread.                                                                 *)
(***************************************************************************)
\* At most this many analyses are started.
MaxAnalyses == 2

\* barCountComboBox.setSelectedId(4): getSelectedBarCount() is 4.
DefaultBarCount == 4

\* The matching pass of the worker asks for 15 results.
PanelMaxResults == 15

\* BandmatePanel::stopPlayback on the GrooveManager: stopPlayback,
\* stopComposerPlayback, useDAWTiming.
PanelStopPlayback ==
  /\ playing' = FALSE
  /\ currentCategoryIndex' = -1
  /\ currentGrooveIndex' = -1
  /\ composerPlaying' = FALSE
  /\ useInternalClock' = FALSE
  /\ Command("useDAWTiming")
  /\ UNCHANGED << categories, playbackStartPpq, looping, internalBpm, internalPositionBeats,
                  lastProcessedPpq, currentSampleRate, composerItems, composerStartPpq >>
  /\ ScopedLock

\* startAnalysis on the message thread, lines 573-593: the flag is set and a
\* worker thread is launched.  Without audio the call returns at once.
StartAnalysis ==
  /\ analyzer.audioLoaded
  /\ panel.started < MaxAnalyses
  /\ panel' = [panel EXCEPT !.isAnalyzing = TRUE, !.started = @ + 1,
                            !.workers = Append(@, [id |-> panel.started + 1, pc |-> "analyze", success |-> FALSE, matches |-> << >>]),
                            !.lastStep = "startAnalysis"]
  /\ UNCHANGED << managerVars, audio, analyzer, probe >>

\* The list without its i-th element.
WithoutWorker(workers, i) == SubSeq(workers, 1, i - 1) \o SubSeq(workers, i + 1, Len(workers))

\* The worker thread, line 589: audioAnalyzer.analyzeAudio().
WorkerAnalyze(i) ==
  /\ i \in 1..Len(panel.workers) /\ panel.workers[i].pc = "analyze"
  /\ analyzer' = analyzeAudio(analyzer)
  /\ panel' = [panel EXCEPT !.workers[i].success = analyzer'.lastResult.ok,
                            !.workers[i].pc = IF analyzer'.lastResult.ok THEN "match" ELSE "post",
                            !.lastStep = "worker"]
  /\ UNCHANGED << managerVars, audio, probe >>

\* The worker thread, lines 592-597: findMatchingGrooves(*gm, 15).
WorkerMatch(i) ==
  /\ i \in 1..Len(panel.workers) /\ panel.workers[i].pc = "match"
  /\ ScopedLock
  /\ UNCHANGED << audio, analyzer, probe >>
  /\ UNCHANGED << singleVars, looping, clockVars, composerVars >>
  /\ midiOut' = << >>
  /\ WatchCommand
  /\ \E r \in findMatchingGrooves(analyzer, categories, PanelMaxResults) :
       /\ categories' = r.cats
       /\ lastOp' = [op |-> "findMatchingGrooves", maxResults |-> PanelMaxResults, matches |-> r.matches,
                     analysisComplete |-> analyzer.analysisComplete, pattern |-> analyzer.detectedPattern]
       /\ panel' = [panel EXCEPT !.workers[i].matches = r.matches, !.workers[i].pc = "post", !.lastStep = "worker"]

\* A faulty worker that stores its matches in the panel itself before it posts.
WorkerPostStoresMatches(i) ==
  /\ i \in 1..Len(panel.workers) /\ panel.workers[i].pc = "post"
  /\ panel' = [panel EXCEPT !.callbacks = Append(@, [id |-> panel.workers[i].id, success |-> panel.workers[i].success,
                                                      matches |-> panel.workers[i].matches]),
                            !.matchResults = IF panel.workers[i].success THEN panel.workers[i].matches ELSE @,
                            !.workers = WithoutWorker(@, i),
                            !.lastStep = "worker"]
  /\ UNCHANGED << managerVars, audio, analyzer, probe >>

\* The worker thread, line 599: MessageManager::callAsync posts the completion and
\* the thread ends.
WorkerPost(i) ==
  /\ i \in 1..Len(panel.workers) /\ panel.workers[i].pc = "post"
  /\ panel' = [panel EXCEPT !.callbacks = Append(@, [id |-> panel.workers[i].id, success |-> panel.workers[i].success,
                                                      matches |-> panel.workers[i].matches]),
                            !.workers = WithoutWorker(@, i),
                            !.lastStep = "worker"]
  /\ UNCHANGED << managerVars, audio, analyzer, probe >>

\* The message thread runs the oldest posted completion, lines 599-616, with
\* onAnalysisComplete (lines 640-688) and addSelectedMatchToComposer (688-699) on success.
DeliverCallback ==
  /\ panel.callbacks # << >>
  /\ LET cb == Head(panel.callbacks)
         add == cb.success /\ cb.matches # << >>
         c == cb.matches[1].categoryIndex
         g == cb.matches[1].grooveIndex
     IN /\ panel' = [panel EXCEPT !.isAnalyzing = FALSE,
                                  !.matchResults = IF cb.success THEN cb.matches ELSE @,
                                  !.selectedMatchIndex = IF add THEN 0 ELSE @,
                                  !.callbacks = Tail(@),
                                  !.delivered = Append(@, cb.id),
                                  !.lastStep = IF cb.success THEN "completed" ELSE "failed"]
        /\ IF add
           THEN \E r \in { loadGroove(categories, c, g) } :
                /\ lastOp' = [op |-> "addToComposer", ok |-> r.ok, categoryIndex |-> c, grooveIndex |-> g,
                              barCount |-> DefaultBarCount]
                /\ midiOut' = << >>
                /\ WatchCommand
                /\ categories' = r.cats
                /\ composerItems' = IF r.ok THEN Append(composerItems, NewComposerItem(composerItems, getGroove(r.cats, c, g), c, g, DefaultBarCount))
                                    ELSE composerItems
                /\ UNCHANGED << singleVars, looping, clockVars, composerPlaying, composerStartPpq >>
                /\ ScopedLock
           ELSE UNCHANGED managerVars
  /\ UNCHANGED << audio, analyzer, probe >>

\* clearButton.onClick, lines 76-90.
ClearButton ==
  /\ PanelStopPlayback
  /\ analyzer' = [clear(analyzer) EXCEPT !.lastResult = [op |-> "clear", ok |-> TRUE, bpm |-> 0, onsets |-> -1]]
  /\ panel' = [panel EXCEPT !.matchResults = << >>, !.lastStep = "clear"]
  /\ UNCHANGED << audio, probe >>

\* BandmatePanel::loadAudioFile, lines 538-558.
PanelLoadAudioFile(file) ==
  /\ PanelStopPlayback
  /\ analyzer' = loadAudioFile(analyzer, file)
  /\ panel' = [panel EXCEPT !.matchResults = IF analyzer'.lastResult.ok THEN << >> ELSE @, !.lastStep = "loadAudioFile"]
  /\ UNCHANGED << audio, probe >>

\* Files given to the panel: one that analyses well, one without any tempo, one
\* that cannot be read.
PanelFiles ==
  { AudioFile(Groove120bpmWav, AudioOf(<< 0, 0, 9, 9, 0, 0, 9, 0 >>, 0, << >>)),
    AudioFile(Track7Wav, AudioOf(<< 0, 0, 9, 9, 0, 0, 9, 0 >>, 0, << >>)),
    [AudioFile(Track7Wav, NoAudio) EXCEPT !.readable = FALSE] }

WorkerStep(id) ==
  \E i \in 1..Len(panel.workers) :
    /\ panel.workers[i].id = id
    /\ WorkerAnalyze(i) \/ WorkerMatch(i) \/ WorkerPost(i)

NextPanel ==
  \/ categories = << >> /\ ScanGrooves(TRUE)
  \/ \E file \in PanelFiles : PanelLoadAudioFile(file)
  \/ StartAnalysis
  \/ \E i \in 1..MaxAnalyses : WorkerAnalyze(i)
  \/ \E i \in 1..MaxAnalyses : WorkerMatch(i)
  \/ \E i \in 1..MaxAnalyses : WorkerPost(i)
  \/ DeliverCallback
  \/ ClearButton

\* A launched thread runs to its end, and the message loop runs what is posted to it.
SpecPanel ==
  /\ Init /\ [][NextPanel]_vars
  /\ \A id \in 1..MaxAnalyses : WF_vars(WorkerStep(id))
  /\ WF_vars(DeliverCallback)

TicksPerBeat == 480

MetaEvent(kind, ticks) == [ticks |-> ticks, kind |-> kind, note |-> 0, on |-> FALSE]

NoteEvent(ticks, message) == [ticks |-> ticks, kind |-> "note", note |-> message.note, on |-> message.on]

\* MidiMessageSequence::addEvent: the event goes after the last one whose time is
\* not later than its own.
RECURSIVE addEvent(_, _)
addEvent(sequence, e) ==
  IF sequence = << >> THEN << e >>
  ELSE IF sequence[Len(sequence)].ticks <= e.ticks THEN Append(sequence, e)
  ELSE Append(addEvent(SubSeq(sequence, 1, Len(sequence) - 1), e), sequence[Len(sequence)])

\* Lines 708-719: the events of one item, those before the item's length, at
\* (startBeat + timeInBeats) * 480 ticks.
RECURSIVE AddItemEvents(_, _, _)
AddItemEvents(sequence, item, evts) ==
  IF evts = << >> THEN sequence
  ELSE AddItemEvents(IF Head(evts).timeInBeats < item.lengthInBeats
                     THEN addEvent(sequence, NoteEvent((item.startBeat + Head(evts).timeInBeats) * TicksPerBeat, Head(evts).message))
                     ELSE sequence,
                     item, Tail(evts))

\* Lines 701-720: every item in turn; an item whose groove is missing or not
\* loaded is skipped.
RECURSIVE AddComposedEvents(_, _, _)
AddComposedEvents(sequence, items, cats) ==
  IF items = << >> THEN sequence
  ELSE LET groove == getGroove(cats, Head(items).grooveCategoryIndex, Head(items).grooveIndex)
       IN AddComposedEvents(IF groove.isLoaded THEN AddItemEvents(sequence, Head(items), groove.events) ELSE sequence,
                            Tail(items), cats)

\* MidiMessageSequence::updateMatchedPairs from event i on: a note-on is paired
\* with the next event of its note; when that is another note-on, a note-off is
\* put in before it at its time; when there is none, the note-on stays unpaired.
RECURSIVE MatchPairsFrom(_, _)
MatchPairsFrom(list, i) ==
  IF i > Len(list) THEN list
  ELSE IF ~(list[i].kind = "note" /\ list[i].on) THEN MatchPairsFrom(list, i + 1)
  ELSE LET same == { j \in (i + 1)..Len(list) : list[j].kind = "note" /\ list[j].note = list[i].note }
           first == CHOOSE j \in same : \A k \in same : j <= k
       IN IF same = { } THEN MatchPairsFrom(list, i + 1)
          ELSE IF ~list[first].on THEN MatchPairsFrom(list, i + 1)
          ELSE MatchPairsFrom(InsertAt(list, first, NoteEvent(list[first].ticks, [note |-> list[i].note, on |-> FALSE])), i + 1)

\* Line 723.
updateMatchedPairs(list) == MatchPairsFrom(list, 1)

\* Line 726: MidiMessageSequence::sort, a stable sort by time.
RECURSIVE sortSequence(_, _)
sortSequence(sorted, list) ==
  IF list = << >> THEN sorted ELSE sortSequence(addEvent(sorted, Head(list)), Tail(list))

\* Lines 673-734: the track of the exported file.
ComposedTrack(items, cats) ==
  LET header == addEvent(addEvent(addEvent(<< >>, MetaEvent("trackName", 0)), MetaEvent("tempo", 0)), MetaEvent("timeSignature", 0))
      Finished(sequence) == addEvent(sortSequence(<< >>, updateMatchedPairs(sequence)),
                                     MetaEvent("endOfTrack", SumLengths(items) * TicksPerBeat))
  IN CHOOSE r \in { Finished(sequence) : sequence \in { AddComposedEvents(header, items, cats) } } : TRUE

\* exportCompositionToTempFile, lines 666-777: no file for an empty timeline or
\* when the output file cannot be opened or written.
ExportCompositionToTempFile(opened) ==
  /\ lastOp' = IF composerItems = << >> \/ ~opened
               THEN [op |-> "exportComposition", written |-> FALSE, track |-> << >>]
               ELSE [op |-> "exportComposition", written |-> TRUE, track |-> ComposedTrack(composerItems, categories)]
  /\ midiOut' = << >>
  /\ WatchCommand
  /\ UNCHANGED << categories, singleVars, looping, clockVars, composerVars >>
  /\ ScopedLock
  /\ UNCHANGED restVars

(***************************************************************************)
(* Export: a timeline of whole and cut patterns is built and exported.     *)
(***************************************************************************)
NextExport ==
  \/ categories = << >> /\ ScanGrooves(TRUE)
  \/ \E r \in GrooveRefs, barCount \in BarCounts : AddToComposer(r[1], r[2], barCount)
  \/ \E i \in ItemIndices : RemoveFromComposer(i)
  \/ \E opened \in BOOLEAN : ExportCompositionToTempFile(opened)

SpecExport == Init /\ [][NextExport]_vars

\* C28: in an exported composition every note-on has a note-off of the same note
\* later in the track, also for items cut to fewer bars than their pattern.
ExportedNotesArePaired ==
  (lastOp.op = "exportComposition" /\ lastOp.written)
    => \A i \in 1..Len(lastOp.track) :
         (lastOp.track[i].kind = "note" /\ lastOp.track[i].on)
           => \E j \in (i + 1)..Len(lastOp.track) :
                /\ lastOp.track[j].kind = "note" /\ ~lastOp.track[j].on
                /\ lastOp.track[j].note = lastOp.track[i].note

\* A composition that holds a pattern cut to one bar has been exported.
ExportedCutItem ==
  /\ lastOp.op = "exportComposition" /\ lastOp.written
  /\ \E i \in 1..Len(composerItems) :
       /\ getGroove(categories, composerItems[i].grooveCategoryIndex, composerItems[i].grooveIndex).isLoaded
       /\ composerItems[i].lengthInBeats
            < getGroove(categories, composerItems[i].grooveCategoryIndex, composerItems[i].grooveIndex).lengthInBeats
  /\ \E i \in 1..Len(lastOp.track) : lastOp.track[i].kind = "note"

\* The pattern a timeline item plays.
ItemGroove(i) == getGroove(categories, composerItems[i].grooveCategoryIndex, composerItems[i].grooveIndex)

\* C29: every message a composer block emits is an event of some item's pattern
\* whose local time is below the item's lengthInBeats and which lies in the
\* block's interval of the timeline, so a cut item plays only its first bars.
EmittedWithinItemLength ==
  [][(lastOp'.op = "processBlock" /\ lastOp'.branch = "composer" /\ lastOp'.exit = "scan")
       => \A k \in 1..Len(midiOut') :
            \E i \in 1..Len(composerItems) :
              \E n \in 1..Len(ItemGroove(i).events) :
                /\ ItemGroove(i).events[n].message = midiOut'[k]
                /\ ItemGroove(i).events[n].timeInBeats < composerItems[i].lengthInBeats
                /\ composerItems[i].startBeat + ItemGroove(i).events[n].timeInBeats > lastOp'.lastPosition
                /\ composerItems[i].startBeat + ItemGroove(i).events[n].timeInBeats <= lastOp'.position]_vars

\* A composer block has emitted events while the position was inside an item cut
\* to fewer bars than its pattern, which is followed by another item.
PlayedInsideCutItem ==
  /\ lastOp.op = "processBlock" /\ lastOp.branch = "composer" /\ lastOp.exit = "scan"
  /\ midiOut # << >>
  /\ Len(composerItems) = 2
  /\ composerItems[1].lengthInBeats < ItemGroove(1).lengthInBeats
  /\ lastOp.position >= composerItems[1].startBeat
  /\ lastOp.position < composerItems[1].startBeat + composerItems[1].lengthInBeats

\* C30: in every state reached by scan, load, add, remove, move and clear, every
\* timeline item refers to a pattern that is in the catalog and loaded, and its
\* lengthInBeats is positive and not larger than the pattern's length.
ItemsReferToLoadedPatterns ==
  \A i \in 1..Len(composerItems) :
    /\ ValidGroove(categories, composerItems[i].grooveCategoryIndex, composerItems[i].grooveIndex)
    /\ ItemGroove(i).isLoaded
    /\ composerItems[i].lengthInBeats > 0
    /\ composerItems[i].lengthInBeats <= ItemGroove(i).lengthInBeats

\* The timeline holds an item and the catalog has just been scanned again.
RescannedWithItems ==
  /\ composerItems # << >>
  /\ lastOp.op = "scanGrooves"
  /\ categories # << >>

(***************************************************************************)
(* parseMidiFile and calculateGrooveLength on their own: a file of one or  *)
(* two tracks, whose messages are time signatures, a tempo, another meta   *)
(* event and notes, is parsed into a groove fresh from the scan.           *)
(***************************************************************************)
\* The number of messages of a parsed file.
MaxMessages == 3

\* Messages a track can hold: 3/4 and 2/4 markers at the start, a 5/4 marker
\* later on, a tempo of 240 bpm, a text event, and notes at 0, 1 and 2.5 seconds.
TrackMessages ==
  { TimeSig(0, 3, 4), TimeSig(0, 2, 4), TimeSig(4, 5, 4), Tempo(0, 240), OtherMsg(1),
    NoteOn(0, 36), NoteOff(2, 36), NoteOn(5, 38) }

RECURSIVE TracksUpTo(_)
TracksUpTo(n) ==
  IF n = 0 THEN { << >> }
  ELSE TracksUpTo(n - 1) \cup { Append(t, m) : t \in { u \in TracksUpTo(n - 1) : Len(u) = n - 1 }, m \in TrackMessages }

\* The files: all the messages in one track, or the first message in a track of its own.
MidiFiles ==
  { [name |-> "Probe", exists |-> TRUE, parses |-> TRUE, tracks |-> << t >>] : t \in TracksUpTo(MaxMessages) }
    \cup { [name |-> "Probe", exists |-> TRUE, parses |-> TRUE, tracks |-> << << Head(t) >>, Tail(t) >>] :
             t \in { u \in TracksUpTo(MaxMessages) : Len(u) >= 2 } }

InitParse ==
  /\ InitManager /\ InitAudio /\ InitAnalyzer /\ InitPanel
  /\ watch = [mode |-> "off"]
  /\ \E file \in MidiFiles :
       probe = [fn |-> "parseMidiFile", applied |-> FALSE, file |-> file, ok |-> FALSE, groove |-> NewGroove(1, 1)]

ParseMidiFile ==
  /\ probe.fn = "parseMidiFile" /\ ~probe.applied
  /\ \E r \in { parseMidiFileFrom(probe.groove, probe.file) } :
       probe' = [probe EXCEPT !.applied = TRUE, !.ok = r.ok, !.groove = r.groove]
  /\ UNCHANGED << managerVars, audio, analyzer, panel >>

NextParse == ParseMidiFile

SpecParse == InitParse /\ [][NextParse]_vars

\* The messages of the parsed file, track after track.
ProbeMessages == FlattenSeq(probe.file.tracks)

\* C31: a loaded pattern's length is ceil(maxEventBeat / beatsPerBar) * beatsPerBar
\* and at least one bar: a positive whole multiple of its numerator, not smaller
\* than any event time, and exactly one bar of its time signature without events.
LengthIsWholeBars ==
  (probe.fn = "parseMidiFile" /\ probe.applied /\ probe.ok)
    => /\ probe.groove.lengthInBeats > 0
       /\ probe.groove.lengthInBeats % probe.groove.numerator = 0
       /\ \A n \in 1..Len(probe.groove.events) : probe.groove.events[n].timeInBeats <= probe.groove.lengthInBeats
       /\ probe.groove.events # << >>
            => \/ probe.groove.lengthInBeats = probe.groove.numerator
               \/ \E n \in 1..Len(probe.groove.events) :
                    probe.groove.lengthInBeats - probe.groove.numerator < probe.groove.events[n].timeInBeats
       /\ probe.groove.events = << >> => probe.groove.lengthInBeats = probe.groove.numerator

\* A file with a 3/4 marker and no note has been loaded.
LoadedWaltzWithoutNotes ==
  /\ probe.fn = "parseMidiFile" /\ probe.applied /\ probe.ok
  /\ probe.groove.isLoaded
  /\ probe.groove.events = << >>
  /\ probe.groove.numerator = 3

\* The time-signature markers and the notes of the parsed file, in file order.
ProbeTimeSigs == SelectSeq(ProbeMessages, LAMBDA m : m.kind = "timesig")

ProbeNotes == SelectSeq(ProbeMessages, LAMBDA m : m.kind = "note")

\* C32: a loaded pattern has the time signature of the file's first time-signature
\* marker (4/4 without one); its events are the file's note-on and note-off
\* messages and nothing else, in order of non-decreasing time.
FirstTimeSignatureAndNotesOnly ==
  (probe.fn = "parseMidiFile" /\ probe.applied /\ probe.ok)
    => /\ IF ProbeTimeSigs = << >>
          THEN probe.groove.numerator = 4 /\ probe.groove.denominator = 4
          ELSE probe.groove.numerator = ProbeTimeSigs[1].num /\ probe.groove.denominator = ProbeTimeSigs[1].den
       /\ Len(probe.groove.events) = Len(ProbeNotes)
       /\ \A n \in 1..Len(probe.groove.events) :
            \E k \in 1..Len(ProbeNotes) :
              probe.groove.events[n].message = [note |-> ProbeNotes[k].note, on |-> ProbeNotes[k].on]
       /\ \A n \in 1..(Len(probe.groove.events) - 1) :
            probe.groove.events[n].timeInBeats <= probe.groove.events[n + 1].timeInBeats

\* A file with two different time-signature markers and a note has been loaded.
LoadedTwoTimeSignatures ==
  /\ probe.fn = "parseMidiFile" /\ probe.applied /\ probe.ok
  /\ Len(ProbeTimeSigs) = 2 /\ ProbeTimeSigs[1].num # ProbeTimeSigs[2].num
  /\ Len(probe.groove.events) = 1

(***************************************************************************)
(* extractBPMFromFilename over the tempo grammar: a number before or after *)
(* "bpm", next to it, one separator away, or with a word in between.       *)
(***************************************************************************)
\* Numbers at and around the limits 40, 60, 200 and 250.
GrammarNumbers ==
  { << "3", "9" >>, << "4", "0" >>, << "4", "5" >>, << "6", "0" >>, << "1", "2", "0" >>, << "2", "0", "0" >>,
    << "2", "5", "0" >>, << "2", "5", "1" >> }

\* What stands between the number and "bpm": nothing, one separator, or a word.
GrammarGaps == { << >>, << "_" >>, << "-" >>, << " " >>, << " ", "a", " " >> }

\* "x_{N}{gap}bpm{ext}" and "bpm{gap}{N}_x{ext}", each with what the grammar makes
\* of it: whether the number is next to "bpm" and whether it is a token of its own.
GrammarNames ==
  { [filename |-> << "x", "_" >> \o n \o gap \o << "b", "p", "m" >> \o e, number |-> GetDoubleValue(n),
     adjacent |-> Len(gap) <= 1, standalone |-> gap # << >>] : n \in GrammarNumbers, gap \in GrammarGaps, e \in Extensions }
    \cup { [filename |-> << "b", "p", "m" >> \o gap \o n \o << "_", "x" >> \o e, number |-> GetDoubleValue(n),
            adjacent |-> Len(gap) <= 1, standalone |-> gap # << >>] : n \in GrammarNumbers, gap \in GrammarGaps, e \in Extensions }

InitGrammar ==
  /\ InitManager /\ InitAudio /\ InitAnalyzer /\ InitPanel
  /\ watch = [mode |-> "off"]
  /\ \E input \in GrammarNames :
       probe = [fn |-> "extractBPMFromFilename", applied |-> FALSE, input |-> input, result |-> 0]

ExtractGrammarBPM ==
  /\ probe.fn = "extractBPMFromFilename" /\ ~probe.applied
  /\ probe' = [probe EXCEPT !.applied = TRUE, !.result = extractBPMFromFilename(probe.input.filename)]
  /\ UNCHANGED << managerVars, audio, analyzer, panel >>

NextGrammar == ExtractGrammarBPM

SpecGrammar == InitGrammar /\ [][NextGrammar]_vars

\* C33: the number of a file name is its tempo by the bpm-marker rule only if it
\* is next to "bpm" (at most one separator away) and within [40, 250]; failing
\* that, only as a token of digits of its own within [60, 200]; every other name
\* gives no tempo, so a tempo from a file name is within [40, 250].
TempoOnlyNextToMarker ==
  (probe.fn = "extractBPMFromFilename" /\ probe.applied)
    => /\ probe.result = IF probe.input.adjacent /\ probe.input.number >= 40 /\ probe.input.number <= 250
                         THEN probe.input.number
                         ELSE IF probe.input.standalone /\ probe.input.number >= 60 /\ probe.input.number <= 200
                         THEN probe.input.number
                         ELSE 0
       /\ probe.result = 0 \/ (probe.result >= 40 /\ probe.result <= 250)

\* The extractor was given a name whose number, 45, is a word away from "bpm".
ExtractedAcrossWord ==
  /\ probe.fn = "extractBPMFromFilename" /\ probe.applied
  /\ ~probe.input.adjacent /\ probe.input.number = 45

(***************************************************************************)
(* detectOnsets on its own: clips of up to MaxWindows analysis windows     *)
(* with the energy levels 0, 5, 9 and 18, at a sample rate that makes one  *)
(* hop 50 ms.                                                              *)
(***************************************************************************)
MaxWindows == 6

EnergyLevels == { 0, 5, 9, 18 }

RECURSIVE EnvelopesUpTo(_)
EnvelopesUpTo(n) ==
  IF n = 0 THEN { << >> }
  ELSE EnvelopesUpTo(n - 1) \cup { Append(e, x) : e \in { u \in EnvelopesUpTo(n - 1) : Len(u) = n - 1 }, x \in EnergyLevels }

InitOnsets ==
  /\ InitManager /\ InitAudio /\ InitAnalyzer /\ InitPanel
  /\ watch = [mode |-> "off"]
  /\ \E energy \in EnvelopesUpTo(MaxWindows) :
       probe = [fn |-> "detectOnsets", applied |-> FALSE, energy |-> energy, onsets |-> << >>]

\* The clip is loaded and detectOnsets runs on it.
DetectOnsets ==
  /\ probe.fn = "detectOnsets" /\ ~probe.applied
  /\ probe' = [probe EXCEPT !.applied = TRUE,
                            !.onsets = detectOnsets(loadAudioFile(analyzer, AudioFile(Track7Wav, AudioOf(probe.energy, 0, << >>))))]
  /\ UNCHANGED << managerVars, audio, analyzer, panel >>

NextOnsets == DetectOnsets

SpecOnsets == InitOnsets /\ [][NextOnsets]_vars

\* The energy rise into window i + 1 of the probed clip (0 when the energy falls).
ProbeDelta(i) == IF probe.energy[i + 1] > probe.energy[i] THEN probe.energy[i + 1] - probe.energy[i] ELSE 0

\* Frame i of the probed clip is an inner frame whose rise exceeds 1.5 times the
\* mean rise and a tenth of the largest, and is not below either neighbour's.
ProbePeak(i) ==
  /\ i \in 2..(Len(probe.energy) - 2)
  /\ \A k \in 1..(Len(probe.energy) - 1) : 10 * ProbeDelta(i) > ProbeDelta(k)
  /\ 2 * (Len(probe.energy) - 1) * ProbeDelta(i) > 3 * SumSeq([k \in 1..(Len(probe.energy) - 1) |-> ProbeDelta(k)])
  /\ ProbeDelta(i) >= ProbeDelta(i - 1)
  /\ ProbeDelta(i) >= ProbeDelta(i + 1)

\* C34: the onsets are strictly increasing and consecutive ones are more than
\* 80 ms apart; each is the time of a frame whose energy rise exceeds the adaptive
\* threshold and is not smaller than the rises of both neighbouring frames.
OnsetsSpacedPeaks ==
  (probe.fn = "detectOnsets" /\ probe.applied)
    => /\ \A k \in 1..(Len(probe.onsets) - 1) : probe.onsets[k + 1] - probe.onsets[k] > 80
       /\ \A k \in 1..Len(probe.onsets) :
            \E i \in 1..Len(probe.energy) : ProbePeak(i) /\ probe.onsets[k] = 50 * i

\* Two neighbouring frames were both peaks, 50 ms apart, and only the first of
\* them became an onset.
SecondPeakTooClose ==
  /\ probe.fn = "detectOnsets" /\ probe.applied
  /\ Len(probe.onsets) = 1
  /\ \E i \in 1..Len(probe.energy) :
       /\ ProbePeak(i) /\ ProbePeak(i + 1)
       /\ probe.onsets[1] = 50 * i

(***************************************************************************)
(* Editing while playing: the timeline is built, edited and cleared while  *)
(* the composer is started, stopped and run in blocks of a second on the   *)
(* internal clock.                                                         *)
(***************************************************************************)
NextEdit ==
  \/ categories = << >> /\ ScanGrooves(TRUE)
  \/ \E r \in LoopRefs, barCount \in {0, 1} : AddToComposer(r[1], r[2], barCount)
  \/ \E i \in ItemIndices : RemoveFromComposer(i)
  \/ \E i \in ItemIndices, j \in ItemIndices : MoveComposerItem(i, j)
  \/ ClearComposer
  \/ StartComposerPlayback
  \/ StopComposerPlayback
  \/ \E b \in BOOLEAN : SetLooping(b)
  \/ ProcessBlock(0, 0, FALSE, 44100)

SpecEdit == Init /\ [][NextEdit]_vars

\* C35: whenever composer playback is active, the timeline is not empty.
PlayingComposerHasItems == composerPlaying => composerItems # << >>

\* The last item has been removed from the timeline while the composer was playing.
RemovedLastItemWhilePlaying ==
  /\ lastOp.op = "removeFromComposer" /\ lastOp.ok
  /\ composerItems = << >>
  /\ composerPlaying

(***************************************************************************)
(* Looping composer playback followed by the observer.  The timeline is    *)
(* built from the march and the waltz, whole or cut to one bar, and played *)
(* on the internal clock; while it plays, a block advances the clock by    *)
(* less than the length of every item.                                     *)
(***************************************************************************)
MaxTraversed == 8

InitTimelineWatch ==
  /\ InitManager
  /\ InitRest
  /\ watch = [mode |-> "timeline", phase |-> "idle", trav |-> 0, fired |-> << >>]

SteadyComposerBlock(numSamples) ==
  /\ composerPlaying =>
       /\ \A i \in 1..Len(composerItems) :
            BeatsThisBlock(EffectiveBpm(0), numSamples, currentSampleRate)
              < composerItems[i].lengthInBeats
       /\ watch.trav + BeatsThisBlock(EffectiveBpm(0), numSamples, currentSampleRate)
            <= MaxTraversed
  /\ ProcessBlock(0, 0, FALSE, numSamples)

NextTraverse ==
  \/ categories = << >> /\ ScanGrooves(TRUE)
  \/ \E r \in LoopRefs, barCount \in {0, 1} : AddToComposer(r[1], r[2], barCount)
  \/ StartComposerPlayback
  \/ \E bpm \in PreviewBpms : SetPreviewBPM(bpm)
  \/ \E numSamples \in BlockSizes : SteadyComposerBlock(numSamples)

SpecTraverse == InitTimelineWatch /\ [][NextTraverse]_vars

\* C36: in looping composer playback on a clock that moves forward by less than
\* every item's length per block, every event of every timeline item with a
\* local time below the item's lengthInBeats is emitted exactly once per
\* traversal of the timeline: after the clock has advanced through n whole
\* traversals since the run's first block, the event has been emitted n times, or
\* n + 1 times when the traversal under way has passed it.
OncePerTimelineTraversal ==
  (watch.mode = "timeline" /\ watch.phase = "running" /\ looping)
    => \A i \in DOMAIN watch.fired :
         \A e \in DOMAIN watch.fired[i] :
           ItemEvents(i)[e].timeInBeats < composerItems[i].lengthInBeats
             => /\ watch.fired[i][e]
                     >= watch.trav \div getComposerLengthInBeats(composerItems)
                /\ watch.fired[i][e]
                     <= watch.trav \div getComposerLengthInBeats(composerItems) + 1

\* A timeline of two items has been traversed once and its second item has an
\* event at its local time 0.
TraversedTwoItems ==
  /\ watch.mode = "timeline" /\ watch.phase = "running" /\ looping
  /\ Len(composerItems) = 2
  /\ watch.trav >= getComposerLengthInBeats(composerItems)
  /\ \E e \in DOMAIN watch.fired[2] : ItemEvents(2)[e].timeInBeats = 0

\* The step is the first block after a successful startPlayback or after
\* resetPlaybackPosition during playback: a looping single-groove block on the
\* internal clock that scanned the events.
FirstLoopingInternalBlock ==
  /\ \/ lastOp.op = "startPlayback" /\ lastOp.ok
     \/ lastOp.op = "resetPlaybackPosition" /\ playing /\ ~composerPlaying
  /\ looping
  /\ lastOp'.op = "processBlock" /\ lastOp'.branch = "single" /\ lastOp'.exit = "scan"
  /\ lastOp'.useInternal

\* C37: the first block after a successful startPlayback (or after
\* resetPlaybackPosition) with looping on and the internal clock emits only
\* events at the start of the pattern, at a time within the beats one block
\* covers; it emits no event from the end of the pattern.
FirstBlockEmitsOnlyStart ==
  [][FirstLoopingInternalBlock
       => \E numSamples \in BlockSizes :
            \A k \in 1..Len(midiOut') :
              \E e \in 1..Len(CurrentGroove.events) :
                /\ CurrentGroove.events[e].message = midiOut'[k]
                /\ CurrentGroove.events[e].timeInBeats
                     <= BeatsThisBlock(lastOp'.effectiveBpm, numSamples, currentSampleRate)]_vars

\* The first block after a start has emitted an event of the pattern's last
\* beat, which playback has not reached.
FirstBlockEmittedTail ==
  /\ lastOp.op = "processBlock" /\ lastOp.branch = "single" /\ lastOp.exit = "scan"
  /\ lastOp.useInternal /\ looping
  /\ lastOp.position = 0
  /\ lastOp.lastPosition > 0
  /\ \E k \in 1..Len(midiOut) :
       \E e \in 1..Len(CurrentGroove.events) :
         /\ CurrentGroove.events[e].message = midiOut[k]
         /\ CurrentGroove.events[e].timeInBeats > CurrentGroove.lengthInBeats - 1

\* The length the block just taken wrapped its position at: the pattern's in the
\* single-groove branch, the timeline's in the composer branch.
WrapLength ==
  IF lastOp.branch = "single" THEN CurrentGroove.lengthInBeats
  ELSE getComposerLengthInBeats(composerItems)

\* C38: with looping on, in every block that scans events the position after the
\* wrap handling, relative to the pattern or to the timeline, is at least 0 and
\* below the length L, whatever the internal-clock advances and host positions
\* were, backward jumps of the host and changes of clock included.
LoopingPositionInRange ==
  (lastOp.op = "processBlock" /\ lastOp.exit = "scan" /\ looping)
    => /\ lastOp.position >= 0
       /\ lastOp.position < WrapLength

\* A looping block on the host's clock has scanned events at a host position
\* before the anchor of the playback.
ScannedBehindAnchor ==
  /\ lastOp.op = "processBlock" /\ lastOp.exit = "scan" /\ looping
  /\ ~lastOp.useInternal
  /\ lastProcessedPpq < (IF lastOp.branch = "single" THEN playbackStartPpq ELSE composerStartPpq)

(***************************************************************************)
(* Running out: the library is scanned once; the waltz alone or the march  *)
(* as the one item of the timeline is started with the loop flag on or off *)
(* and the preview override on or off.  Once a playback is active with the loop    *)
(* flag off, no command is given any more and the audio thread goes on     *)
(* calling processBlock on the internal clock: the host stands still, or   *)
(* it runs under the override.  The tempo is 120 or 240 bpm and a block is *)
(* half a second or a second.                                              *)
(***************************************************************************)
\* A playback is active and the loop flag is off.
RunningOut == (playing \/ composerPlaying) /\ ~looping

RunOutCommand ==
  /\ ~RunningOut
  /\ \/ categories = << >> /\ ScanGrooves(TRUE)
     \/ StartPlayback(0, 1)
     \/ composerItems = << >> /\ AddToComposer(0, 0, 0)
     \/ StartComposerPlayback
     \/ \E b \in BOOLEAN : SetLooping(b)
     \/ \E bpm \in PreviewBpms : SetPreviewBPM(bpm)
     \/ UseDAWTiming

RunOutBlock ==
  \E hostIsPlaying \in BOOLEAN, numSamples \in BlockSizes :
    /\ UseInternal(hostIsPlaying)
    /\ ProcessBlock(IF hostIsPlaying THEN 120 ELSE 0, 0, hostIsPlaying, numSamples)

NextRunOut == RunOutCommand \/ RunOutBlock

SpecRunOut == Init /\ [][NextRunOut]_vars /\ WF_vars(RunOutBlock)

\* C39: with the loop flag off, a positive tempo and the internal clock, an
\* active single-groove or composer playback is idle again after finitely many
\* calls of processBlock when no command intervenes.
RunsOutToIdle == RunningOut ~> (~playing /\ ~composerPlaying)

\* A non-looping playback has run through its length on the internal clock and a
\* block has ended it.
RanOutAtEnd ==
  /\ lastOp.op = "processBlock" /\ lastOp.exit = "end" /\ lastOp.useInternal
  /\ ~looping /\ ~playing /\ ~composerPlaying
  /\ internalPositionBeats > 0

\* An analysis is in flight: its worker thread runs, or its completion callback
\* is posted and has not run yet.
AnalysisInFlight == panel.workers # << >> \/ panel.callbacks # << >>

\* C40: while an analysis is in flight, no action of the message thread (the
\* Clear button, loading another file, starting another analysis) changes the
\* analyzer's audio buffer or its stored result.
InFlightAnalyzerUntouched ==
  [][(AnalysisInFlight /\ panel'.lastStep \in { "clear", "loadAudioFile", "startAnalysis" })
       => /\ analyzer'.audioBuffer = analyzer.audioBuffer
          /\ analyzer'.audioLoaded = analyzer.audioLoaded
          /\ analyzer'.detectedPattern = analyzer.detectedPattern
          /\ analyzer'.analysisComplete = analyzer.analysisComplete]_vars

\* Clear was pressed while a worker thread had analysed the audio and had not yet
\* matched it: the worker is still in flight and the audio is gone.
ClearedUnderWorker ==
  /\ panel.lastStep = "clear"
  /\ \E i \in 1..Len(panel.workers) : panel.workers[i].pc = "match"
  /\ ~analyzer.audioLoaded /\ ~analyzer.analysisComplete

====
